---------------------------- MODULE Spec2Model ----------------------------
(***************************************************************************)
(* BotTrade: the per-symbol signal engine (patterns, pivots, trend,        *)
(* indicators, the BUY rule) and the live pipeline around it (bar handler  *)
(* tasks, store writes, the WebSocket fan-out).                            *)
(*                                                                         *)
(* Prices are integers on a small grid.  Every value the code derives by   *)
(* division or by a decimal multiplier (ATR, RSI, EMA, MACD, zone bounds,  *)
(* stop-loss, take-profit) is an exact rational [n, d] in lowest terms     *)
(* with d > 0, so equalities and comparisons are decided exactly.          *)
(***************************************************************************)
EXTENDS Integers, Sequences, FiniteSets, TLC

VARIABLES
    engine,             \* SpecEngine: one SignalEngine instance
    result,             \* SpecEngine: what the last add_bar returned
    adds,               \* SpecEngine: number of add_bar calls made
    reloads,            \* SpecEngine: number of load_bars / reset calls made
    tasks,              \* the _on_bar_closed tasks, in creation order
    signal_engines,     \* BotTradeApp.signal_engines: symbol -> engine or None
    current_symbols,    \* BotTradeApp._current_symbols
    subscribed,         \* symbols the adapter is subscribed to
    current_settings,   \* app_state.current_settings: watchlist, default_quantity
    db_settings,        \* the settings table: the values of these two keys
    wl,                 \* the update_watchlist call in progress
    budget,             \* what the environment may still do in this run
    db_bars,            \* the bars table: symbol -> rows in timestamp order
    db_signals,         \* the signals table
    db_queue,           \* the callers awaiting the store, oldest call first
    active_connections, \* ConnectionManager.active_connections
    latest_signal_checks, \* AppState.latest_signal_checks, in insertion order
    ws,                 \* the websocket_endpoint task of each connection
    client,             \* the peer of each connection: none, ok, hung, broken
    delivered,          \* the messages each peer has received, in order
    broadcasts,         \* the calls of manager.broadcast, in order
    fed,                \* the bars passed to add_bar, in order
    resumptions,        \* coroutine -> the times the event loop has resumed it
    bars_table,         \* SpecStore: the bars table and its AUTOINCREMENT sequence
    saved,              \* SpecStore: the bars passed to save_bar / save_bars, in order
    fetched,            \* SpecStore: the last get_bars call and what it returned
    followed,           \* SpecFollow: the Signal whose stop is being followed
    applied,            \* SpecFollow: the highs applied to it, with the Signal before and after
    backtest,           \* SpecBacktest: the BacktestEngine instances and their run in progress
    reports,            \* SpecBacktest: the completed run calls and what they returned
    call                \* SpecPure: the last call of a pure function, with what it returned

\* Python None where a record (or a rational) may be absent; NoPattern where a
\* CandlePattern may be absent.
None == [is_none |-> TRUE]

\* an Optional[int] that is set to v
Some(v) == [is_none |-> FALSE, value |-> v]
NoPattern == "NONE"

-----------------------------------------------------------------------------
(* Exact rational arithmetic standing for the code's float arithmetic.     *)

\* Python evaluates an argument before the call it is passed to, where an
\* operator argument is evaluated on first use: Eager(v, e) is e, with v
\* evaluated first.
Eager(v, e) == CASE v = v -> e

AbsInt(x) == IF x < 0 THEN -x ELSE x

RECURSIVE GCD(_, _)
GCD(a, b) == IF b = 0 THEN a ELSE GCD(b, a % b)

Frac(n, d) ==
    LET s == IF d < 0 THEN -1 ELSE 1
        g == GCD(AbsInt(n), AbsInt(d))
    IN  [n |-> (s * n) \div g, d |-> (s * d) \div g]

Rat(x) == [n |-> x, d |-> 1]

LCM(a, b) == (a \div GCD(a, b)) * b

RAdd(x, y) ==
    LET l == LCM(x.d, y.d)
    IN  Eager(x, Eager(y, Frac(x.n * (l \div x.d) + y.n * (l \div y.d), l)))

RNeg(x) == [n |-> -x.n, d |-> x.d]

RSub(x, y) == Eager(x, Eager(y, RAdd(x, RNeg(y))))

RMul(x, y) ==
    LET a == Frac(x.n, y.d)
        b == Frac(y.n, x.d)
    IN  Eager(x, Eager(y, [n |-> a.n * b.n, d |-> a.d * b.d]))

RDiv(x, y) == Eager(x, Eager(y, RMul(x, Frac(y.d, y.n))))

RLt(x, y) ==
    LET l == LCM(x.d, y.d)
    IN  x.n * (l \div x.d) < y.n * (l \div y.d)

RLe(x, y) == ~RLt(y, x)

RAbs(x) == [n |-> AbsInt(x.n), d |-> x.d]

RMax(x, y) == IF RLt(x, y) THEN y ELSE x

\* floor of a rational
RFloor(x) == x.n \div x.d

\* Python's round(x, 2): to the nearest hundredth, ties to the even hundredth.
round2(x) ==
    LET h  == RMul(x, Rat(100))
        f  == RFloor(h)
        r  == RSub(h, Rat(f))
        up == \/ RLt(Frac(1, 2), r)
              \/ (r = Frac(1, 2) /\ f % 2 = 1)
    IN  Frac(IF up THEN f + 1 ELSE f, 100)

\* Python's sum(): the left fold of + over s[i..], starting from acc
RECURSIVE sum_from(_, _, _)
sum_from(acc, s, i) ==
    IF i > Len(s) THEN acc
    ELSE LET acc1 == RAdd(acc, s[i])
         IN  Eager(acc1, sum_from(acc1, s, i + 1))

RSum(s) == sum_from(Rat(0), s, 1)

\* indicators._mean
_mean(values) ==
    IF values = <<>> THEN Rat(0) ELSE RDiv(RSum(values), Rat(Len(values)))

\* Python slices s[-k:] and s[:k]
LastN(s, k) == IF Len(s) <= k THEN s ELSE SubSeq(s, Len(s) - k + 1, Len(s))
FirstN(s, k) == IF Len(s) <= k THEN s ELSE SubSeq(s, 1, k)
Last(s) == s[Len(s)]
\* a function with domain 1..n as the sequence of its values
ToSeq(f) == [x \in 1..Len(f) |-> f[x]] \o <<>>
MinInt(a, b) == IF a < b THEN a ELSE b
MaxInt(a, b) == IF a < b THEN b ELSE a

-----------------------------------------------------------------------------
(* models.Bar and its derived properties                                   *)

Bar(sym, ts, o, h, l, c) ==
    [symbol |-> sym, timestamp |-> ts, open |-> o, high |-> h, low |-> l,
     close |-> c]

is_bullish(bar) == bar.close > bar.open
is_bearish(bar) == bar.close < bar.open
body_size(bar) == AbsInt(bar.close - bar.open)
upper_shadow(bar) == bar.high - MaxInt(bar.open, bar.close)
lower_shadow(bar) == MinInt(bar.open, bar.close) - bar.low
total_range(bar) == bar.high - bar.low

-----------------------------------------------------------------------------
(* patterns.py                                                             *)

body_ratio == Frac(35, 100)
shadow_ratio == Frac(18, 10)

is_hammer(bar) ==
    LET body == Rat(body_size(bar))
        ls   == Rat(lower_shadow(bar))
        us   == Rat(upper_shadow(bar))
        tr   == Rat(total_range(bar))
    IN  IF total_range(bar) = 0 THEN FALSE
        ELSE IF RLt(body_ratio, RDiv(body, tr)) THEN FALSE
        ELSE IF RLt(ls, RMul(tr, Frac(4, 10))) THEN FALSE
        ELSE IF body_size(bar) > 0
             THEN IF RLt(RDiv(ls, body), shadow_ratio) THEN FALSE
                  ELSE IF RLt(RMul(body, Frac(12, 10)), us) THEN FALSE
                  ELSE TRUE
             ELSE IF RLt(ls, RMul(tr, Frac(6, 10))) THEN FALSE
                  ELSE TRUE

is_shooting_star(bar) ==
    LET body == Rat(body_size(bar))
        ls   == Rat(lower_shadow(bar))
        us   == Rat(upper_shadow(bar))
        tr   == Rat(total_range(bar))
    IN  IF total_range(bar) = 0 THEN FALSE
        ELSE IF RLt(body_ratio, RDiv(body, tr)) THEN FALSE
        ELSE IF RLt(us, RMul(tr, Frac(4, 10))) THEN FALSE
        ELSE IF body_size(bar) > 0
             THEN IF RLt(RDiv(us, body), shadow_ratio) THEN FALSE
                  ELSE IF RLt(RMul(body, Frac(12, 10)), ls) THEN FALSE
                  ELSE TRUE
             ELSE IF RLt(us, RMul(tr, Frac(6, 10))) THEN FALSE
                  ELSE TRUE

is_bullish_engulfing_after_any_bar(current, previous) ==
    IF ~is_bullish(current) THEN FALSE
    ELSE /\ MinInt(current.open, current.close)
              < MinInt(previous.open, previous.close)
         /\ MaxInt(current.open, current.close)
              > MaxInt(previous.open, previous.close)

is_bullish_engulfing(current, previous) ==
    IF ~is_bearish(previous) THEN FALSE
    ELSE IF ~is_bullish(current) THEN FALSE
    ELSE /\ MinInt(current.open, current.close)
              < MinInt(previous.open, previous.close)
         /\ MaxInt(current.open, current.close)
              > MaxInt(previous.open, previous.close)

is_bearish_engulfing(current, previous) ==
    IF ~is_bullish(previous) THEN FALSE
    ELSE IF ~is_bearish(current) THEN FALSE
    ELSE /\ MinInt(current.open, current.close)
              < MinInt(previous.open, previous.close)
         /\ MaxInt(current.open, current.close)
              > MaxInt(previous.open, previous.close)

detect_bullish_reversal(bars) ==
    IF Len(bars) < 1 THEN NoPattern
    ELSE IF is_hammer(Last(bars)) THEN "HAMMER"
    ELSE IF Len(bars) >= 2 /\ is_bullish_engulfing(Last(bars), bars[Len(bars) - 1])
         THEN "BULLISH_ENGULFING"
    ELSE NoPattern

detect_bearish_reversal(bars) ==
    IF Len(bars) < 1 THEN NoPattern
    ELSE IF is_shooting_star(Last(bars)) THEN "SHOOTING_STAR"
    ELSE IF Len(bars) >= 2 /\ is_bearish_engulfing(Last(bars), bars[Len(bars) - 1])
         THEN "BEARISH_ENGULFING"
    ELSE NoPattern

-----------------------------------------------------------------------------
(* pivot_detector.py: PivotDetector is the record [pivot_lows, pivot_highs] *)

Pivot(type, price, timestamp, bar_index, pattern) ==
    [type |-> type, price |-> price, timestamp |-> timestamp,
     bar_index |-> bar_index, pattern |-> pattern]

PivotDetector == [pivot_lows |-> <<>>, pivot_highs |-> <<>>]

\* bar_index is the 0-based index the code passes (len(bars) - 1)
process_bar(pd, bars, bar_index) ==
    IF Len(bars) < 2 THEN pd
    ELSE LET current_bar == Last(bars)
             bullish_pattern == detect_bullish_reversal(bars)
             bearish_pattern == detect_bearish_reversal(bars)
         IN  IF bullish_pattern # NoPattern
             THEN [pd EXCEPT !.pivot_lows = Append(@,
                      Pivot("LOW", current_bar.low, current_bar.timestamp,
                            bar_index, bullish_pattern))]
             ELSE IF bearish_pattern # NoPattern
             THEN [pd EXCEPT !.pivot_highs = Append(@,
                      Pivot("HIGH", current_bar.high, current_bar.timestamp,
                            bar_index, bearish_pattern))]
             ELSE pd

get_last_pivot_low(pd) ==
    IF pd.pivot_lows # <<>> THEN Last(pd.pivot_lows) ELSE None

\* a second-to-last pivot low that is found only among five or more
get_previous_pivot_low_of_five(pd) ==
    IF Len(pd.pivot_lows) >= 5 THEN pd.pivot_lows[Len(pd.pivot_lows) - 1] ELSE None

get_previous_pivot_low(pd) ==
    IF Len(pd.pivot_lows) >= 2 THEN pd.pivot_lows[Len(pd.pivot_lows) - 1] ELSE None

\* a clear that leaves the pivots in place
clear_nothing(pd) == pd

clear(pd) == [pivot_lows |-> <<>>, pivot_highs |-> <<>>]

-----------------------------------------------------------------------------
(* trend_analyzer.py                                                       *)

REQUIRED_PAIRS == 3

\* the loop of _count_higher_pairs, at 1-based position i, having counted count
RECURSIVE count_higher_from(_, _, _)
count_higher_from(pivots, i, count) ==
    IF i < 2 THEN count
    ELSE IF pivots[i].price > pivots[i - 1].price
         THEN count_higher_from(pivots, i - 1, count + 1)
         ELSE count

_count_all_higher_pairs(pivots) ==
    Cardinality({ i \in 2..Len(pivots) : pivots[i].price > pivots[i - 1].price })

_count_higher_pairs(pivots) ==
    IF Len(pivots) < 2 THEN 0 ELSE count_higher_from(pivots, Len(pivots), 0)

analyze(pivot_lows, pivot_highs) ==
    LET higher_lows == _count_higher_pairs(pivot_lows)
        higher_highs == _count_higher_pairs(pivot_highs)
    IN  [is_uptrend |-> higher_lows >= REQUIRED_PAIRS /\ higher_highs >= REQUIRED_PAIRS,
         higher_lows_count |-> higher_lows,
         higher_highs_count |-> higher_highs]

-----------------------------------------------------------------------------
(* indicators.py                                                           *)

Closes(bars) == ToSeq([c \in 1..Len(bars) |-> bars[c].close])

_diff(values) == ToSeq([j \in 1..(Len(values) - 1) |-> values[j + 1] - values[j]])

_where_positive(values) ==
    ToSeq([g \in 1..Len(values) |-> IF values[g] > 0 THEN Rat(values[g]) ELSE Rat(0)])

_where_negative_abs(values) ==
    ToSeq([l \in 1..Len(values) |-> IF values[l] < 0 THEN Rat(-values[l]) ELSE Rat(0)])

\* Wilder smoothing over xs[i..], starting from avg
RECURSIVE wilder(_, _, _, _)
wilder(avg, xs, i, period) ==
    IF i > Len(xs) THEN avg
    ELSE LET avg1 == RDiv(RAdd(RMul(avg, Rat(period - 1)), xs[i]), Rat(period))
         IN  Eager(avg1, wilder(avg1, xs, i + 1, period))

calculate_rsi_flat_is_50(closes, period) ==
    IF Len(closes) < period + 1 THEN None
    ELSE LET deltas == _diff(closes)
             gains == _where_positive(deltas)
             losses == _where_negative_abs(deltas)
             avg_gain == wilder(_mean(FirstN(gains, period)), gains, period + 1, period)
             avg_loss == wilder(_mean(FirstN(losses, period)), losses, period + 1, period)
         IN  IF avg_loss = Rat(0)
             THEN IF avg_gain = Rat(0) THEN Rat(50) ELSE Rat(100)
             ELSE LET rs == RDiv(avg_gain, avg_loss)
                  IN  round2(RSub(Rat(100), RDiv(Rat(100), RAdd(Rat(1), rs))))

calculate_rsi(closes, period) ==
    IF Len(closes) < period + 1 THEN None
    ELSE LET deltas == _diff(closes)
             gains == _where_positive(deltas)
             losses == _where_negative_abs(deltas)
             avg_gain == wilder(_mean(FirstN(gains, period)), gains, period + 1, period)
             avg_loss == wilder(_mean(FirstN(losses, period)), losses, period + 1, period)
         IN  IF avg_loss = Rat(0) THEN Rat(100)
             ELSE LET rs == RDiv(avg_gain, avg_loss)
                  IN  round2(RSub(Rat(100), RDiv(Rat(100), RAdd(Rat(1), rs))))

RECURSIVE ema_from(_, _, _, _)
ema_from(ema, values, i, multiplier) ==
    IF i > Len(values) THEN ema
    ELSE LET ema1 == Append(ema, RAdd(RMul(values[i], multiplier),
                                      RMul(Last(ema), RSub(Rat(1), multiplier))))
         IN  Eager(ema1, ema_from(ema1, values, i + 1, multiplier))

\* values: a sequence of rationals
calculate_ema(values, period) ==
    IF Len(values) < period THEN <<>>
    ELSE ema_from(<<_mean(FirstN(values, period))>>, values, period + 1,
                  Frac(2, period + 1))

MACDResult(macd_line, signal_line, histogram) ==
    [macd_line |-> macd_line, signal_line |-> signal_line, histogram |-> histogram]

\* calculate_macd from `signal_ema = calculate_ema(...)` on
macd_of_signal(macd_line_values, signal_ema) ==
    IF signal_ema = <<>> THEN None
    ELSE LET macd_line == Last(macd_line_values)
             signal_line == Last(signal_ema)
             histogram == RSub(macd_line, signal_line)
         IN  MACDResult(RDiv(macd_line, Rat(1000)),
                        RDiv(signal_line, Rat(1000)),
                        RDiv(histogram, Rat(1000)))

\* calculate_macd from `if len(macd_line_values) < signal_period` on
macd_of_line(macd_line_values, signal_period) ==
    IF Len(macd_line_values) < signal_period THEN None
    ELSE macd_of_signal(macd_line_values,
                        calculate_ema(macd_line_values, signal_period))

\* calculate_macd from `if not fast_ema or not slow_ema` on
macd_of_emas(fast_ema, slow_ema, offset, signal_period) ==
    IF fast_ema = <<>> \/ slow_ema = <<>> THEN None
    ELSE macd_of_line(ToSeq([m \in 1..Len(slow_ema) |->
                               RSub(fast_ema[m + offset], slow_ema[m])]),
                      signal_period)

calculate_macd_after_one_more(closes, fast_period, slow_period, signal_period) ==
    IF Len(closes) <= slow_period + signal_period THEN None
    ELSE macd_of_emas(
             calculate_ema(ToSeq([r \in 1..Len(closes) |-> Rat(closes[r])]), fast_period),
             calculate_ema(ToSeq([r \in 1..Len(closes) |-> Rat(closes[r])]), slow_period),
             slow_period - fast_period, signal_period)

calculate_macd(closes, fast_period, slow_period, signal_period) ==
    IF Len(closes) < slow_period + signal_period THEN None
    ELSE macd_of_emas(
             calculate_ema(ToSeq([r \in 1..Len(closes) |-> Rat(closes[r])]), fast_period),
             calculate_ema(ToSeq([r \in 1..Len(closes) |-> Rat(closes[r])]), slow_period),
             slow_period - fast_period, signal_period)

true_range(bars, i) ==
    LET high == bars[i].high
        low == bars[i].low
        prev_close == bars[i - 1].close
    IN  MaxInt(high - low, MaxInt(AbsInt(high - prev_close), AbsInt(low - prev_close)))

calculate_atr(bars, period) ==
    IF Len(bars) < period + 1 THEN None
    ELSE LET true_ranges == ToSeq([t \in 1..(Len(bars) - 1) |->
                                        Rat(true_range(bars, t + 1))])
         IN  _mean(LastN(true_ranges, period))

check_macd_crossover(current, previous) ==
    IF current = None \/ previous = None THEN FALSE
    ELSE /\ RLe(previous.macd_line, previous.signal_line)
         /\ RLt(current.signal_line, current.macd_line)

\* the dict get_all_indicators returns
indicators_of(rsi, macd, atr) ==
    [rsi |-> rsi,
     macd_line |-> IF macd # None THEN macd.macd_line ELSE None,
     macd_signal |-> IF macd # None THEN macd.signal_line ELSE None,
     macd_histogram |-> IF macd # None THEN macd.histogram ELSE None,
     atr |-> atr]

get_all_indicators(bars, rsi_period, macd_fast, macd_slow, macd_signal, atr_period) ==
    indicators_of(calculate_rsi(Closes(bars), rsi_period),
                  calculate_macd(Closes(bars), macd_fast, macd_slow, macd_signal),
                  calculate_atr(bars, atr_period))

-----------------------------------------------------------------------------
(* models.SupportZone, models.Signal                                       *)

\* a zone test that asks the bar to lie inside the zone, not to overlap it
contains_price_inside(zone, low, high) ==
    RLe(zone.zone_low, Rat(low)) /\ RLe(Rat(high), zone.zone_high)

contains_price(zone, low, high) ==
    RLe(Rat(low), zone.zone_high) /\ RLe(zone.zone_low, Rat(high))

\* the dataclass constructor without __post_init__
Signal_no_post_init(symbol, timestamp, entry, stop_loss, take_profit, quantity, reason) ==
    [id |-> None, symbol |-> symbol, signal_type |-> "BUY",
     timestamp |-> timestamp, entry |-> entry, stop_loss |-> stop_loss,
     take_profit |-> take_profit, quantity |-> quantity, status |-> "ACTIVE",
     reason |-> reason, original_sl |-> Rat(0)]

\* the dataclass constructor followed by __post_init__; original_sl is not
\* passed by the engine, so it starts at its default 0.0
Signal(symbol, timestamp, entry, stop_loss, take_profit, quantity, reason) ==
    LET original_sl == Rat(0)
    IN  [id |-> None, symbol |-> symbol, signal_type |-> "BUY",
         timestamp |-> timestamp, entry |-> entry, stop_loss |-> stop_loss,
         take_profit |-> take_profit, quantity |-> quantity, status |-> "ACTIVE",
         reason |-> reason,
         original_sl |-> IF original_sl = Rat(0) THEN stop_loss ELSE original_sl]

\* Signal.risk and Signal.breakeven_price
Signal_risk(signal) == RAbs(RSub(signal.entry, signal.stop_loss))

breakeven_price(signal) == RAdd(signal.entry, Signal_risk(signal))

\* should_move_to_breakeven without its test of the status
should_move_whatever_status(signal, current_price) ==
    IF RLe(signal.entry, signal.stop_loss) THEN FALSE
    ELSE RLe(breakeven_price(signal), Rat(current_price))

should_move_to_breakeven(signal, current_price) ==
    IF signal.status # "ACTIVE" THEN FALSE
    ELSE IF RLe(signal.entry, signal.stop_loss) THEN FALSE
    ELSE RLe(breakeven_price(signal), Rat(current_price))

move_to_breakeven(signal) ==
    [signal EXCEPT !.stop_loss = signal.entry, !.status = "BREAKEVEN"]

-----------------------------------------------------------------------------
(* signal_engine.py                                                        *)

\* SignalEngine.__init__ with the configuration cfg
SignalEngine(cfg) ==
    [zone_width_atr_mult |-> cfg.zone_width_atr_mult,
     sl_buffer_atr_mult |-> cfg.sl_buffer_atr_mult,
     risk_reward_ratio |-> cfg.risk_reward_ratio,
     default_quantity |-> cfg.default_quantity,
     rsi_period |-> cfg.rsi_period,
     macd_fast |-> cfg.macd_fast,
     macd_slow |-> cfg.macd_slow,
     macd_signal |-> cfg.macd_signal,
     atr_period |-> cfg.atr_period,
     pivot_detector |-> PivotDetector,
     bars |-> <<>>,
     previous_macd |-> None]

SignalCheckResult(should_signal, signal, reasons, failed_conditions) ==
    [should_signal |-> should_signal, signal |-> signal, reasons |-> reasons,
     failed_conditions |-> failed_conditions]

_get_support_zone(e, atr) ==
    LET last_pivot_low == get_last_pivot_low(e.pivot_detector)
        width == RMul(e.zone_width_atr_mult, atr)
    IN  IF last_pivot_low = None THEN None
        ELSE [pivot |-> last_pivot_low,
              zone_low |-> RSub(Rat(last_pivot_low.price), width),
              zone_high |-> RAdd(Rat(last_pivot_low.price), width)]

_create_signal(e, bar, atr, pattern, reasons) ==
    LET entry == Rat(bar.close)
        prev_pivot == get_previous_pivot_low(e.pivot_detector)
        sl == IF prev_pivot # None
              THEN RSub(Rat(prev_pivot.price), RMul(e.sl_buffer_atr_mult, atr))
              ELSE RSub(Rat(bar.low), RMul(e.sl_buffer_atr_mult, atr))
        risk == RSub(entry, sl)
        tp == RAdd(entry, RMul(e.risk_reward_ratio, risk))
    IN  Signal(bar.symbol, bar.timestamp, entry, sl, tp, e.default_quantity, reasons)

\* check_signal from condition 1 on, with the values it has computed
check_conditions(e, current_bar, indicators, trend_result, support_zone, pattern, current_macd) ==
    LET \* reasons and failed after each of the four conditions
        reasons1 == IF ~trend_result.is_uptrend THEN <<>> ELSE <<"Uptrend">>
        failed1 == IF ~trend_result.is_uptrend THEN <<"No uptrend">> ELSE <<>>
        in_zone == support_zone # None
                   /\ contains_price(support_zone, current_bar.low, current_bar.high)
        reasons2 == IF in_zone THEN Append(reasons1, "Price in support zone")
                    ELSE reasons1
        failed2 == IF support_zone = None
                   THEN Append(failed1, "No support zone available")
                   ELSE IF in_zone THEN failed1
                   ELSE Append(failed1, "Price not in support zone")
        reasons3 == IF pattern # NoPattern
                    THEN Append(reasons2, "Bullish reversal") ELSE reasons2
        failed3 == IF pattern # NoPattern
                   THEN failed2 ELSE Append(failed2, "No bullish reversal pattern")
        crossed == check_macd_crossover(current_macd, e.previous_macd)
        rsi_ok == indicators.rsi # None /\ RLt(Rat(50), indicators.rsi)
        confirmation == crossed \/ rsi_ok
        reasons4 == IF crossed
                    THEN Append(reasons3, "Confirmation: MACD bullish crossover")
                    ELSE IF rsi_ok THEN Append(reasons3, "Confirmation: RSI > 50")
                    ELSE reasons3
        \* f"{rsi:.1f}" if indicators.rsi else "N/A": a 0.0 RSI is falsy too
        rsi_str == IF indicators.rsi # None /\ indicators.rsi # Rat(0)
                   THEN "value" ELSE "N/A"
        failed4 == IF confirmation THEN failed3
                   ELSE Append(failed3,
                            IF rsi_str = "N/A"
                            THEN "No confirmation (MACD no cross, RSI=N/A)"
                            ELSE "No confirmation (MACD no cross, RSI=value)")
        all_passed == Len(failed4) = 0 /\ Len(reasons4) >= 4
    IN  IF ~all_passed
        THEN SignalCheckResult(FALSE, None, reasons4, failed4)
        ELSE SignalCheckResult(TRUE,
                 _create_signal(e, current_bar, indicators.atr, pattern, reasons4),
                 reasons4, <<>>)

\* check_signal from `if indicators['atr'] is None` on
check_indicators(e, indicators) ==
    IF indicators.atr = None
    THEN SignalCheckResult(FALSE, None, <<>>, <<"ATR not available (need more data)">>)
    ELSE check_conditions(e, Last(e.bars), indicators,
                          analyze(e.pivot_detector.pivot_lows,
                                  e.pivot_detector.pivot_highs),
                          _get_support_zone(e, indicators.atr),
                          detect_bullish_reversal(e.bars),
                          calculate_macd(Closes(e.bars), e.macd_fast,
                                         e.macd_slow, e.macd_signal))

check_signal(e) ==
    IF Len(e.bars) < 2
    THEN SignalCheckResult(FALSE, None, <<>>, <<"Insufficient data">>)
    ELSE check_indicators(e, get_all_indicators(e.bars, e.rsi_period, e.macd_fast,
                                                e.macd_slow, e.macd_signal,
                                                e.atr_period))

\* returns the engine after the call and the SignalCheckResult
\* add_bar from `result = self.check_signal()` on
check_and_update(e) ==
    [engine |-> [e EXCEPT !.previous_macd =
                    calculate_macd(Closes(e.bars), e.macd_fast, e.macd_slow,
                                   e.macd_signal)],
     result |-> check_signal(e)]

add_bar(e, bar) ==
    check_and_update([e EXCEPT !.bars = Append(e.bars, bar),
                               !.pivot_detector =
                                   process_bar(@, Append(e.bars, bar), Len(e.bars))])

\* the loop of load_bars over bars[i..]
RECURSIVE load_from(_, _, _)
load_from(e, bars, i) ==
    IF i > Len(bars) THEN e
    ELSE load_from([e EXCEPT !.bars = Append(e.bars, bars[i]),
                             !.pivot_detector =
                                 process_bar(@, Append(e.bars, bars[i]), Len(e.bars))],
                   bars, i + 1)

\* load_bars from `if len(self.bars) >= 2` on
set_previous_macd(e) ==
    IF Len(e.bars) >= 2
    THEN [e EXCEPT !.previous_macd =
              calculate_macd(Closes(SubSeq(e.bars, 1, Len(e.bars) - 1)),
                             e.macd_fast, e.macd_slow, e.macd_signal)]
    ELSE e

load_bars(e, bars) ==
    set_previous_macd(load_from([e EXCEPT !.bars = <<>>,
                                          !.pivot_detector = clear(e.pivot_detector)],
                                bars, 1))

reset(e) ==
    [e EXCEPT !.bars = <<>>, !.pivot_detector = clear(e.pivot_detector),
              !.previous_macd = None]

-----------------------------------------------------------------------------
(* Configurations, stored histories and feed bars                          *)

\* config.Settings, with the default multipliers, risk/reward ratio and
\* quantity of config.py; the indicator periods are shortened so that
\* warm-up ends within the explored histories.
settings ==
    [zone_width_atr_mult |-> Frac(2, 10), sl_buffer_atr_mult |-> Frac(5, 100),
     risk_reward_ratio |-> Rat(2), default_quantity |-> 100,
     rsi_period |-> 2, macd_fast |-> 1, macd_slow |-> 3, macd_signal |-> 3,
     atr_period |-> 2]

\* Engine configurations (SignalEngine.__init__ arguments)
Configs ==
    { settings,
      [zone_width_atr_mult |-> Frac(1, 10), sl_buffer_atr_mult |-> Rat(0),
       risk_reward_ratio |-> Frac(3, 2), default_quantity |-> 1,
       rsi_period |-> 3, macd_fast |-> 1, macd_slow |-> 3, macd_signal |-> 1,
       atr_period |-> 3] }

Sym == "VNM"

Hammer(sym, ts, l) == Bar(sym, ts, l + 2, l + 3, l, l + 3)
Star(sym, ts, h) == Bar(sym, ts, h - 2, h, h - 3, h - 3)

\* A stored history: a flat bar, then alternating shooting stars (highs 6, 7,
\* 8, 9) and hammers (lows 1, 2, 3, 4).
SeedBars(sym) ==
    << Bar(sym, 1, 3, 3, 3, 3),
       Star(sym, 2, 6), Hammer(sym, 3, 1), Star(sym, 4, 7), Hammer(sym, 5, 2),
       Star(sym, 6, 8), Hammer(sym, 7, 3), Star(sym, 8, 9), Hammer(sym, 9, 4) >>

SeedLens == {0, 5, 8, 9}
ReloadLens == {1, 8}

\* Bar shapes <<open, high, low, close>> as offsets from a base price: hammer,
\* dragonfly doji, shooting star, full bullish, full bearish, small bearish,
\* flat, and a malformed bar (low > close).
Shapes ==
    { <<2, 3, 0, 3>>, <<3, 3, 0, 3>>, <<1, 3, 0, 0>>, <<0, 3, 0, 3>>,
      <<3, 3, 0, 0>>, <<2, 2, 1, 1>>, <<1, 1, 1, 1>>, <<0, 4, 4, 3>> }
Bases == {4, 5}

ShapedBar(sym, ts, shape, base) ==
    Bar(sym, ts, base + shape[1], base + shape[2], base + shape[3], base + shape[4])

\* The bars a feed may deliver at timestamp ts.  The engine takes bars as
\* they come (dnse_adapter._parse_bar checks no OHLC relation), so the last
\* two are bars after a price gap whose low lies above their close and
\* their high below it.
NewBars(sym, ts) ==
    { ShapedBar(sym, ts, shape, base) : shape \in Shapes, base \in Bases }
    \cup { Bar(sym, ts, 97, 95, 98, 97), Bar(sym, ts, 95, 89, 99, 95) }

-----------------------------------------------------------------------------
(* storage.database: the bars table                                        *)

\* models.Bar with all its fields, as the store takes it
OHLCV(symbol, timeframe, timestamp, open, high, low, close, volume) ==
    [symbol |-> symbol, timeframe |-> timeframe, timestamp |-> timestamp,
     open |-> open, high |-> high, low |-> low, close |-> close,
     volume |-> volume]

\* a datetime within one day: the wall-clock hour and the tzinfo, None for a
\* naive datetime and Some(h) for a UTC offset of h hours
datetime(hour, tzinfo) == [hour |-> hour, tzinfo |-> tzinfo]

\* the instant of an aware datetime, in hours UTC
utc_hour(dt) == dt.hour - dt.tzinfo.value

\* datetime.isoformat(): the text "HH" or "HH+hh" / "HH-hh" as character
\* codes (the date, minutes and seconds are the same in every timestamp)
isoformat(dt) ==
    <<48 + (dt.hour \div 10), 48 + (dt.hour % 10)>>
    \o (IF dt.tzinfo = None THEN <<>>
        ELSE <<IF dt.tzinfo.value < 0 THEN 45 ELSE 43,
               48 + (AbsInt(dt.tzinfo.value) \div 10),
               48 + (AbsInt(dt.tzinfo.value) % 10)>>)

\* datetime.fromisoformat(text)
fromisoformat(text) ==
    datetime((text[1] - 48) * 10 + (text[2] - 48),
             IF Len(text) = 2 THEN None
             ELSE Some((IF text[3] = 45 THEN -1 ELSE 1)
                       * ((text[4] - 48) * 10 + (text[5] - 48))))

\* SQLite's comparison of TEXT values (BINARY collation): a < b
RECURSIVE text_less(_, _)
text_less(a, b) ==
    IF b = <<>> THEN FALSE
    ELSE IF a = <<>> THEN TRUE
    ELSE IF Head(a) # Head(b) THEN Head(a) < Head(b)
    ELSE text_less(Tail(a), Tail(b))

\* the bars table after _create_tables: no rows, AUTOINCREMENT sequence 0
bars_schema == [rows |-> <<>>, seq |-> 0]

\* the parameters save_bar / save_bars bind for a bar, with the row id
bar_row(id, bar) ==
    [id |-> id, symbol |-> bar.symbol, timeframe |-> bar.timeframe,
     timestamp |-> isoformat(bar.timestamp), open |-> bar.open,
     high |-> bar.high, low |-> bar.low, close |-> bar.close,
     volume |-> bar.volume]

\* the row conflicts with the bar on UNIQUE(symbol, timeframe, timestamp)
conflicts(row, bar) ==
    /\ row.symbol = bar.symbol
    /\ row.timeframe = bar.timeframe
    /\ row.timestamp = isoformat(bar.timestamp)

\* a plain INSERT that ignores the UNIQUE constraint
insert_plain(table, bar) ==
    [rows |-> Append(table.rows, bar_row(table.seq + 1, bar)),
     seq |-> table.seq + 1]

\* INSERT OR REPLACE INTO bars: the conflicting row is deleted and the new
\* row gets the next AUTOINCREMENT id
insert_or_replace(table, bar) ==
    [rows |-> Append(SelectSeq(table.rows, LAMBDA row : ~conflicts(row, bar)),
                     bar_row(table.seq + 1, bar)),
     seq |-> table.seq + 1]

\* Database.save_bar
save_bar(table, bar) == insert_or_replace(table, bar)

\* Database.save_bars: executemany over the bars from bars[k] on
RECURSIVE save_bars_from(_, _, _)
save_bars_from(table, bars, k) ==
    IF k > Len(bars) THEN table
    ELSE save_bars_from(insert_or_replace(table, bars[k]), bars, k + 1)

save_bars(table, bars) == save_bars_from(table, bars, 1)

\* ORDER BY timestamp DESC over a set of rows
RECURSIVE order_by_timestamp_desc(_)
order_by_timestamp_desc(rows) ==
    IF rows = {} THEN <<>>
    ELSE LET top == CHOOSE r \in rows :
                        \A q \in rows : ~text_less(r.timestamp, q.timestamp)
         IN  <<top>> \o order_by_timestamp_desc(rows \ {top})

\* the Bar Database.get_bars builds from a row
row_bar(row) ==
    OHLCV(row.symbol, row.timeframe, fromisoformat(row.timestamp), row.open,
          row.high, row.low, row.close, row.volume)

\* the rows SELECT ... WHERE symbol = ? AND timeframe = ? ORDER BY timestamp
\* DESC LIMIT ? fetches
select_bars(table, symbol, timeframe, limit) ==
    FirstN(order_by_timestamp_desc(
               {table.rows[k] : k \in {j \in 1..Len(table.rows) :
                                          /\ table.rows[j].symbol = symbol
                                          /\ table.rows[j].timeframe = timeframe}}),
           limit)

\* Database.get_bars: the fetched rows, reversed, as Bars
Database_get_bars(table, symbol, timeframe, limit) ==
    LET rows == select_bars(table, symbol, timeframe, limit)
    IN  [k \in 1..Len(rows) |-> row_bar(rows[Len(rows) + 1 - k])]


-----------------------------------------------------------------------------
(* The variables of each specification                                     *)

varsEngine == <<engine, result, adds, reloads>>

varsApp ==
    <<tasks, signal_engines, current_symbols, subscribed, current_settings,
      db_settings, wl, budget, db_bars,
      db_signals, db_queue, active_connections, latest_signal_checks, ws, client,
      delivered, broadcasts, fed, resumptions>>

varsStore == <<bars_table, saved, fetched>>

varsTrade == <<followed, applied, backtest, reports>>

varsPure == <<call>>

vars == <<varsEngine, varsApp, varsStore, varsTrade, varsPure>>

\* Database.connect has created the tables; nothing saved, nothing fetched
StoreIdle ==
    /\ bars_table = bars_schema
    /\ saved = <<>>
    /\ fetched = None

\* no pure function has been called
PureIdle == call = [fn |-> "none"]

\* no Signal is followed and no BacktestEngine has been constructed
TradeIdle ==
    /\ followed = None
    /\ applied = <<>>
    /\ backtest = <<>>
    /\ reports = <<>>

-----------------------------------------------------------------------------
(* The live pipeline: main.BotTradeApp, api.server, storage.database       *)

MaxBars == 2        \* bars the feed delivers (one _on_bar_closed task each)

\* the tasks _handle_bar_from_thread may create in a run
TaskIds == 1..MaxBars

\* update_watchlist as a caller of the store (tasks are called by their id)
Updater == 0

Symbols == {"VNM", "FPT", "HPG"}
Connections == <<"ws1", "ws2">>
Conns == {Connections[k] : k \in 1..Len(Connections)}

\* the watchlist at start, the symbols the feed has bars for, and the lists
\* the settings API may pass to update_watchlist
StartSymbols == <<"VNM", "FPT">>
FeedSymbols == {"VNM", "HPG"}
WatchlistInputs == { <<"VNM", "FPT", "HPG">>, <<"FPT", "HPG">>, <<"FPT", "VNM">> }

\* the bodies of PUT /settings explored: a watchlist, with or without a
\* default_quantity
SettingsUpdate(watchlist, default_quantity) ==
    [watchlist |-> watchlist, default_quantity |-> default_quantity]

SettingsUpdates ==
    { SettingsUpdate(w, None) : w \in WatchlistInputs }
        \cup { SettingsUpdate(<<"FPT", "VNM">>, Some(50)) }

\* the rows the bars table holds for sym when the application starts
History(sym) ==
    IF sym \in {"VNM", "FPT"} THEN SubSeq(SeedBars(sym), 1, 8) ELSE <<>>

\* the bar the feed delivers for sym at ts: a hammer above the hammers of
\* the history (it fires the BUY rule on such a history, and not without one)
FeedBar(sym, ts) == Hammer(sym, ts, ts - 5)

\* a field of a DNSE message: a number, or a value float() raises on
Number(v) == [is_number |-> TRUE, value |-> v]
NotANumber == [is_number |-> FALSE, value |-> 0]

\* The messages the feed may deliver for sym at ts, with prices in thousands
\* of VND as DNSE sends them: the hammer of FeedBar, a tick whose high lies
\* below its low, and a message whose open is not numeric.
Messages(sym, ts) ==
    { [time |-> ts, open |-> Number(ts - 3), high |-> Number(ts - 2),
       low |-> Number(ts - 5), close |-> Number(ts - 2)],
      [time |-> ts, open |-> Number(97), high |-> Number(95),
       low |-> Number(98), close |-> Number(97)],
      [time |-> ts, open |-> NotANumber, high |-> Number(ts - 2),
       low |-> Number(ts - 5), close |-> Number(ts - 2)] }

\* the price unit of the model, in VND
PriceUnit == 1000

\* DNSEAdapter._parse_bar: prices below 1000 are taken as thousands of VND;
\* no relation between open, high, low and close is tested, and None is
\* returned only when float() has raised
_parse_bar(symbol, data) ==
    IF \E field \in {data.open, data.high, data.low, data.close} : ~field.is_number
    THEN None
    ELSE LET price_mult == IF data.close.value < 1000 THEN 1000 ELSE 1
         IN  Bar(symbol, data.time,
                 (data.open.value * price_mult) \div PriceUnit,
                 (data.high.value * price_mult) \div PriceUnit,
                 (data.low.value * price_mult) \div PriceUnit,
                 (data.close.value * price_mult) \div PriceUnit)

\* An explored run: the number of clients already streaming when it begins,
\* and what the environment does in it, at most: bars delivered, clients
\* connecting, peers closing, peers stalling, update_watchlist calls, store
\* writes failing.
Run(streaming, bars, connects, closes, stalls, updates, faults) ==
    [streaming |-> streaming, bars |-> bars, connects |-> connects,
     closes |-> closes, stalls |-> stalls, updates |-> updates, faults |-> faults]

Runs ==
    { Run(0, MaxBars, 1, 0, 0, 0, 1),
      Run(2, MaxBars, 0, 1, 0, 0, 0),
      Run(2, MaxBars - 1, 0, 1, 1, 0, 0),
      Run(0, MaxBars - 1, 1, 1, 0, 1, 0),
      Run(0, MaxBars, 0, 0, 0, 1, 0) }

\* The app state as one record, for the operators below that run a
\* coroutine from one await to the next.
App ==
    [tasks |-> tasks, signal_engines |-> signal_engines,
     current_symbols |-> current_symbols, subscribed |-> subscribed,
     current_settings |-> current_settings, db_settings |-> db_settings,
     wl |-> wl,
     budget |-> budget, db_bars |-> db_bars, db_signals |-> db_signals,
     db_queue |-> db_queue,
     active_connections |-> active_connections,
     latest_signal_checks |-> latest_signal_checks, ws |-> ws, client |-> client,
     delivered |-> delivered, broadcasts |-> broadcasts, fed |-> fed]

Becomes(A) ==
    /\ tasks' = A.tasks
    /\ signal_engines' = A.signal_engines
    /\ current_symbols' = A.current_symbols
    /\ subscribed' = A.subscribed
    /\ current_settings' = A.current_settings
    /\ db_settings' = A.db_settings
    /\ wl' = A.wl
    /\ budget' = A.budget
    /\ db_bars' = A.db_bars
    /\ db_signals' = A.db_signals
    /\ db_queue' = A.db_queue
    /\ active_connections' = A.active_connections
    /\ latest_signal_checks' = A.latest_signal_checks
    /\ ws' = A.ws
    /\ client' = A.client
    /\ delivered' = A.delivered
    /\ broadcasts' = A.broadcasts
    /\ fed' = A.fed
    /\ UNCHANGED <<varsEngine, varsStore, varsTrade, varsPure>>

\* a coroutine other than an _on_bar_closed task runs to its next await
Step(A) == Becomes(A) /\ UNCHANGED resumptions

\* the event loop resumes task t, which runs to its next await
Resumes(t, A) == Becomes(A) /\ resumptions' = [resumptions EXCEPT ![t] = @ + 1]

\* Python's `x in list`, list.index(x) and list.remove(x)
Contains(list, x) == \E k \in 1..Len(list) : list[k] = x
IndexOf(list, x) ==
    CHOOSE k \in 1..Len(list) : list[k] = x /\ \A j \in 1..(k - 1) : list[j] # x
Remove(list, x) ==
    LET k == IndexOf(list, x)
    IN  SubSeq(list, 1, k - 1) \o SubSeq(list, k + 1, Len(list))

\* a message: the event, the bar it is about, the task whose broadcast sent
\* it (0: sent by send_personal), and the "id" of its data (None for data
\* without one)
Msg(event, symbol, timestamp, task) ==
    [event |-> event, symbol |-> symbol, timestamp |-> timestamp, task |-> task,
     id |-> None]

\* a signal message that leaves out the "id" of Signal.to_dict()
message_without_id(T, t, event) ==
    Msg(event, T.bar.symbol, T.bar.timestamp, t)

\* the message task t (frame T) broadcasts for event: bar.to_dict(), the
\* signal check, or signal.to_dict() with the signal's id
message(T, t, event) ==
    [Msg(event, T.bar.symbol, T.bar.timestamp, t)
        EXCEPT !.id = IF event = "signal" THEN T.result.signal.id ELSE None]

\* An _on_bar_closed task, suspended at its first await.  pc is the await it
\* is suspended at: save_bar, send (a send_json inside manager.broadcast),
\* get_bars, save_signal; or done.  ev, i and disconnected are the event, the
\* list iterator's next index and the local list of the broadcast in
\* progress; target and sent are the connection of the send awaited and
\* whether the message went out.  error is the exception the handler's
\* except clause logged, "" for none.
Task(bar) ==
    [bar |-> bar, pc |-> "save_bar", ev |-> "", i |-> 0, disconnected |-> <<>>,
     target |-> "", sent |-> FALSE, result |-> None, added |-> FALSE,
     error |-> ""]

\* websocket.send_json is called on connection c: the message goes out when
\* the peer is reading
send_json(A, c, msg) ==
    IF A.client[c] = "ok" THEN [A EXCEPT !.delivered[c] = Append(@, msg)] ELSE A

\* INSERT OR REPLACE of bar into rows kept in timestamp order
RECURSIVE upsert(_, _)
upsert(rows, bar) ==
    IF rows = <<>> THEN <<bar>>
    ELSE IF Head(rows).timestamp = bar.timestamp THEN <<bar>> \o Tail(rows)
    ELSE IF Head(rows).timestamp > bar.timestamp THEN <<bar>> \o rows
    ELSE <<Head(rows)>> \o upsert(Tail(rows), bar)

\* db.get_bars(symbol, timeframe, limit): the last limit rows, oldest first
get_bars(rows, limit) == LastN(rows, limit)

\* latest_signal_checks[symbol] = data on an insertion-ordered dict
put(cache, symbol, data) ==
    IF \E k \in 1..Len(cache) : cache[k].symbol = symbol
    THEN [k \in 1..Len(cache) |->
             IF cache[k].symbol = symbol THEN data ELSE cache[k]]
    ELSE Append(cache, data)

\* `for conn in disconnected: self.active_connections.remove(conn)` from
\* disconnected[k]: the list left, and whether remove raised ValueError
RECURSIVE remove_disconnected(_, _, _)
remove_disconnected(connections, disconnected, k) ==
    IF k > Len(disconnected) THEN [list |-> connections, raised |-> FALSE]
    ELSE IF ~Contains(connections, disconnected[k])
         THEN [list |-> connections, raised |-> TRUE]
    ELSE remove_disconnected(Remove(connections, disconnected[k]), disconnected, k + 1)

\* _on_bar_closed returns, or its except clause logs error
finish(A, t, error) == [A EXCEPT !.tasks[t].pc = "done", !.tasks[t].error = error]

RECURSIVE broadcast_loop(_, _)

\* ConnectionManager.broadcast(event, ...) called by task t
broadcast(A, t, event) ==
    broadcast_loop([A EXCEPT !.tasks[t].ev = event, !.tasks[t].i = 1,
                             !.tasks[t].disconnected = <<>>,
                             !.broadcasts = Append(@, message(A.tasks[t], t, event))],
                   t)

\* server.broadcast_signal_check: cache the check, then broadcast it
broadcast_signal_check(A, t) ==
    LET T == A.tasks[t]
        data == [symbol |-> T.bar.symbol, timestamp |-> T.bar.timestamp,
                 conditions_passed |-> Len(T.result.reasons)]
    IN  broadcast([A EXCEPT !.latest_signal_checks = put(@, T.bar.symbol, data)],
                  t, "signal_check")

\* add_bar has returned r to task t
added(A, t, r) ==
    [A EXCEPT !.signal_engines[A.tasks[t].bar.symbol] = r.engine,
              !.fed = Append(@, A.tasks[t].bar),
              !.tasks[t].result = r.result,
              !.tasks[t].added = TRUE]

\* _on_bar_closed from `engine = self.signal_engines[bar.symbol]` to the
\* next await
add_bar_and_check(A, t) ==
    LET bar == A.tasks[t].bar
    IN  IF A.signal_engines[bar.symbol] = None THEN finish(A, t, "KeyError")
        ELSE broadcast_signal_check(
                 added(A, t, add_bar(A.signal_engines[bar.symbol], bar)), t)

\* a handler that returns after the signal_check, whatever the result
after_broadcast_silent(A, t) ==
    IF A.tasks[t].ev = "bar_closed" /\ A.signal_engines[A.tasks[t].bar.symbol] # None
    THEN add_bar_and_check(A, t)
    ELSE finish(A, t, "")

\* _on_bar_closed after manager.broadcast returned, to the next await
after_broadcast(A, t) ==
    LET T == A.tasks[t]
        symbol == T.bar.symbol
    IN  CASE T.ev = "bar_closed" ->
               IF A.signal_engines[symbol] = None
               THEN [A EXCEPT !.signal_engines[symbol] = SignalEngine(settings),
                              !.tasks[t].pc = "get_bars",
                              !.db_queue = Append(@, t)]
               ELSE add_bar_and_check(A, t)
          [] T.ev = "signal_check" ->
               IF T.result.should_signal /\ T.result.signal # None
               THEN [A EXCEPT !.tasks[t].pc = "save_signal",
                              !.db_queue = Append(@, t)]
               ELSE finish(A, t, "")
          [] OTHER -> finish(A, t, "")

\* ConnectionManager.broadcast from the list iterator's next() to the next
\* await: the next send_json, or the removals and on into _on_bar_closed
broadcast_loop(A, t) ==
    LET T == A.tasks[t]
    IN  IF T.i <= Len(A.active_connections)
        THEN LET c == A.active_connections[T.i]
                 A1 == send_json(A, c, message(T, t, T.ev))
             IN  [A1 EXCEPT !.tasks[t].pc = "send", !.tasks[t].i = T.i + 1,
                            !.tasks[t].target = c,
                            !.tasks[t].sent = (A.client[c] = "ok")]
        ELSE LET r == remove_disconnected(A.active_connections, T.disconnected, 1)
             IN  IF r.raised
                 THEN finish([A EXCEPT !.active_connections = r.list], t, "ValueError")
                 ELSE after_broadcast([A EXCEPT !.active_connections = r.list], t)

\* websocket_endpoint of a connection: pc is the await it is suspended at
\* (accept, status, replay, receive) or idle, closed, crashed; size and pos
\* are the dict iterator's recorded size and position; sent is whether the
\* awaited send went out; error is the exception that left the coroutine
Endpoint == [pc |-> "idle", size |-> 0, pos |-> 0, sent |-> FALSE, error |-> ""]

\* exception error leaves websocket_endpoint: the server closes the socket
crash(A, c, error) ==
    [A EXCEPT !.ws[c].pc = "crashed", !.ws[c].error = error, !.client[c] = "broken"]

\* the replay loop of websocket_endpoint from the dict iterator's next() to
\* the next await
replay_next(A, c) ==
    LET W == A.ws[c]
    IN  IF Len(A.latest_signal_checks) # W.size THEN crash(A, c, "RuntimeError")
        ELSE IF W.pos >= W.size THEN [A EXCEPT !.ws[c].pc = "receive"]
        ELSE LET data == A.latest_signal_checks[W.pos + 1]
                 A1 == send_json(A, c, Msg("signal_check", data.symbol, data.timestamp, 0))
             IN  [A1 EXCEPT !.ws[c].pc = "replay", !.ws[c].pos = W.pos + 1,
                            !.ws[c].sent = (A.client[c] = "ok")]

\* update_watchlist's loop over to_add from to_add[k] to the next await
update_add_loop(A) ==
    IF A.wl.k > Len(A.wl.to_add)
    THEN [A EXCEPT !.current_symbols = A.wl.new_symbols, !.wl.pc = "idle"]
    ELSE LET symbol == A.wl.to_add[A.wl.k]
         IN  [A EXCEPT !.subscribed = @ \cup {symbol},
                       !.signal_engines[symbol] = SignalEngine(settings),
                       !.wl.pc = "get_bars",
                       !.db_queue = Append(@, Updater)]

\* the check _broadcast_initial_signal_checks caches for an engine at start
initial_check(symbol, e) ==
    [symbol |-> symbol, timestamp |-> Last(e.bars).timestamp,
     conditions_passed |-> Len(check_signal(e).reasons)]

\* the checks _broadcast_initial_signal_checks caches at start
InitialChecks ==
    [k \in 1..Len(StartSymbols) |->
        initial_check(StartSymbols[k],
                      load_bars(SignalEngine(settings), History(StartSymbols[k])))]

\* what a client that connected after start has received: the system status
\* and the replay of the cached checks
Replayed(checks) ==
    <<Msg("system", "", 0, 0)>>
    \o [k \in 1..Len(checks) |->
           Msg("signal_check", checks[k].symbol, checks[k].timestamp, 0)]

\* BotTradeApp.start has returned: an engine per watchlist symbol, loaded
\* from the stored history; the initial check of every symbol with at least
\* 2 bars is cached.  The first budget.streaming connections have connected
\* since and are in their receive loop.  No Telegram notifier is configured.
StartedWith(run, checks) ==
    /\ tasks = <<>>
    /\ signal_engines =
          [s \in Symbols |->
              IF ~Contains(StartSymbols, s) THEN None
              ELSE IF History(s) = <<>> THEN SignalEngine(settings)
              ELSE load_bars(SignalEngine(settings), History(s))]
    /\ current_symbols = StartSymbols
    /\ subscribed = {StartSymbols[k] : k \in 1..Len(StartSymbols)}
    /\ current_settings = [watchlist |-> StartSymbols,
                            default_quantity |-> settings.default_quantity]
    /\ db_settings = [watchlist |-> None, default_quantity |-> None]
    /\ wl = [pc |-> "idle", new_symbols |-> <<>>, changed |-> FALSE,
             default_quantity |-> None, to_add |-> <<>>, k |-> 0]
    /\ budget = run
    /\ db_bars = [s \in Symbols |-> History(s)]
    /\ db_signals = <<>>
    /\ db_queue = <<>>
    /\ active_connections = SubSeq(Connections, 1, budget.streaming)
    /\ latest_signal_checks = checks
    /\ ws = [c \in Conns |->
               IF Contains(active_connections, c)
               THEN [pc |-> "receive", size |-> Len(checks),
                     pos |-> Len(checks), sent |-> TRUE, error |-> ""]
               ELSE Endpoint]
    /\ client = [c \in Conns |-> IF Contains(active_connections, c) THEN "ok" ELSE "none"]
    /\ delivered = [c \in Conns |->
                      IF Contains(active_connections, c) THEN Replayed(checks) ELSE <<>>]
    /\ broadcasts = <<>>
    /\ fed = <<>>
    /\ resumptions = [t \in TaskIds \cup {Updater} |-> 0]

Started(run) == StartedWith(run, InitialChecks)

InitApp == \E run \in Runs : Started(run)

\* the store has served every call made before caller's: the calls go to
\* the one worker thread of the connection, which serves them in order
Served(caller) == db_queue # <<>> /\ Head(db_queue) = caller

\* the timestamp of the next bar of sym
NextTimestamp(sym) ==
    Len(History(sym)) + Cardinality({t \in 1..Len(tasks) : tasks[t].bar.symbol = sym}) + 1

\* DNSEAdapter._on_message and _handle_bar_from_thread: the feed delivers a
\* message of a subscribed symbol; unless _parse_bar returns None, the bar
\* goes to on_bar_closed, which creates the _on_bar_closed task
HandleBarFromThread ==
    /\ budget.bars > 0
    /\ \E sym \in subscribed \cap FeedSymbols :
          \E data \in Messages(sym, NextTimestamp(sym)) :
              LET bar == _parse_bar(sym, data)
              IN  IF bar = None
                  THEN Step([App EXCEPT !.budget.bars = @ - 1])
                  ELSE Step([App EXCEPT !.tasks = Append(@, Task(bar)),
                                        !.db_queue = Append(@, Len(tasks) + 1),
                                        !.budget.bars = @ - 1])

\* _on_bar_closed resumes from `await db.save_bar(bar)`
SaveBarReturns(t) ==
    /\ t \in DOMAIN tasks
    /\ tasks[t].pc = "save_bar"
    /\ Served(t)
    /\ LET bar == tasks[t].bar
           A1 == [App EXCEPT !.db_bars[bar.symbol] = upsert(@, bar),
                             !.db_queue = Tail(@)]
       IN  Resumes(t, broadcast(A1, t, "bar_closed"))

SaveBarRaises(t) ==
    /\ t \in DOMAIN tasks
    /\ tasks[t].pc = "save_bar"
    /\ budget.faults > 0
    /\ Resumes(t, finish([App EXCEPT !.budget.faults = @ - 1,
                                      !.db_queue = Remove(@, t)], t, "save_bar"))

\* manager.broadcast resumes from `await connection.send_json(message)`
SendReturns(t) ==
    /\ t \in DOMAIN tasks
    /\ tasks[t].pc = "send"
    /\ tasks[t].sent
    /\ Resumes(t, broadcast_loop(App, t))

SendRaises(t) ==
    /\ t \in DOMAIN tasks
    /\ tasks[t].pc = "send"
    /\ ~tasks[t].sent
    /\ client[tasks[t].target] = "broken"
    /\ Resumes(t, broadcast_loop(
                 [App EXCEPT !.tasks[t].disconnected = Append(@, tasks[t].target)], t))

\* _on_bar_closed resumes from `await db.get_bars(...)` with a fresh engine
GetBarsReturns(t) ==
    /\ t \in DOMAIN tasks
    /\ tasks[t].pc = "get_bars"
    /\ Served(t)
    /\ LET symbol == tasks[t].bar.symbol
           historical == get_bars(db_bars[symbol], 200)
           A1 == [App EXCEPT !.db_queue = Tail(@)]
       IN  IF historical # <<>> /\ signal_engines[symbol] = None
           THEN Resumes(t, finish(A1, t, "KeyError"))
           ELSE Resumes(t, add_bar_and_check(
                    [A1 EXCEPT !.signal_engines[symbol] =
                        IF historical # <<>>
                        THEN load_bars(@, SubSeq(historical, 1, Len(historical) - 1))
                        ELSE @], t))

\* _on_bar_closed resumes from `await db.save_signal(signal)`
SaveSignalReturns(t) ==
    /\ t \in DOMAIN tasks
    /\ tasks[t].pc = "save_signal"
    /\ Served(t)
    /\ LET id == Len(db_signals) + 1
           signal == [tasks[t].result.signal EXCEPT !.id = Some(id)]
           A1 == [App EXCEPT !.db_signals = Append(@, signal),
                             !.db_queue = Tail(@),
                             !.tasks[t].result.signal = signal]
       IN  Resumes(t, broadcast(A1, t, "signal"))

SaveSignalRaises(t) ==
    /\ t \in DOMAIN tasks
    /\ tasks[t].pc = "save_signal"
    /\ budget.faults > 0
    /\ Resumes(t, finish([App EXCEPT !.budget.faults = @ - 1,
                                      !.db_queue = Remove(@, t)], t, "save_signal"))

\* the elements of a list, as Python's set(list)
set(list) == { list[k] : k \in 1..Len(list) }

\* PUT /settings with a watchlist: update_settings runs to
\* `await db.save_setting("watchlist", ...)`
UpdateSettings ==
    /\ wl.pc = "idle"
    /\ budget.updates > 0
    /\ \E update \in SettingsUpdates :
          Step([App EXCEPT
                   !.current_settings.watchlist = update.watchlist,
                   !.wl = [pc |-> "save_setting", new_symbols |-> update.watchlist,
                           changed |-> set(current_settings.watchlist)
                                           # set(update.watchlist),
                           default_quantity |-> update.default_quantity,
                           to_add |-> <<>>, k |-> 0],
                   !.db_queue = Append(@, Updater),
                   !.budget.updates = @ - 1])

\* update_settings after its settings are saved: when the watchlist
\* changed it calls update_watchlist with the watchlist of current_settings,
\* which runs to its first `await db.get_bars(...)`
settings_saved(A0) ==
    LET new_symbols == A0.current_settings.watchlist
        to_add == SelectSeq(new_symbols, LAMBDA s : ~Contains(A0.current_symbols, s))
        to_remove == {s \in Symbols : Contains(A0.current_symbols, s)
                                      /\ ~Contains(new_symbols, s)}
        A1 == [A0 EXCEPT
                  !.subscribed = @ \ to_remove,
                  !.signal_engines =
                      [s \in Symbols |-> IF s \in to_remove THEN None ELSE @[s]],
                  !.wl = [@ EXCEPT !.pc = "run", !.new_symbols = new_symbols,
                                   !.to_add = to_add, !.k = 1]]
    IN  IF A0.wl.changed
        THEN update_add_loop(A1)
        ELSE [A0 EXCEPT !.wl.pc = "idle"]

\* update_settings resumes from `await db.save_setting("watchlist", ...)`:
\* with a default_quantity it sets current_settings["default_quantity"] and
\* runs to `await db.save_setting("default_quantity", ...)`
UpdateWatchlist ==
    /\ wl.pc = "save_setting"
    /\ Served(Updater)
    /\ LET A0 == [App EXCEPT !.db_settings.watchlist = Some(wl.new_symbols),
                             !.db_queue = Tail(@)]
       IN  IF wl.default_quantity # None
           THEN Resumes(Updater,
                    [A0 EXCEPT !.current_settings.default_quantity =
                                   wl.default_quantity.value,
                               !.wl.pc = "save_quantity",
                               !.db_queue = Append(@, Updater)])
           ELSE Resumes(Updater, settings_saved(A0))

\* update_settings resumes from `await db.save_setting("default_quantity", ...)`
UpdateQuantity ==
    /\ wl.pc = "save_quantity"
    /\ Served(Updater)
    /\ Resumes(Updater,
            settings_saved([App EXCEPT
                               !.db_settings.default_quantity = wl.default_quantity,
                               !.db_queue = Tail(@)]))

\* update_watchlist resumes from `await db.get_bars(...)`
UpdateGetBarsReturns ==
    /\ wl.pc = "get_bars"
    /\ Served(Updater)
    /\ LET symbol == wl.to_add[wl.k]
           historical == get_bars(db_bars[symbol], 200)
       IN  Resumes(Updater, update_add_loop(
                [App EXCEPT !.signal_engines[symbol] =
                                IF historical # <<>> THEN load_bars(@, historical) ELSE @,
                            !.db_queue = Tail(@),
                            !.wl.k = @ + 1]))

\* a client opens the stream: websocket_endpoint awaits websocket.accept()
Connect(c) ==
    /\ ws[c].pc = "idle"
    /\ budget.connects > 0
    /\ Step([App EXCEPT !.ws[c].pc = "accept", !.client[c] = "ok",
                            !.budget.connects = @ - 1])

\* manager.connect resumes from accept: the connection joins the list and the
\* system status is sent
Accepted(c) ==
    /\ ws[c].pc = "accept"
    /\ IF client[c] = "broken" THEN Step(crash(App, c, "WebSocketDisconnect"))
       ELSE LET A1 == [App EXCEPT !.active_connections = Append(@, c)]
                A2 == send_json(A1, c, Msg("system", "", 0, 0))
            IN  Step([A2 EXCEPT !.ws[c].pc = "status",
                                   !.ws[c].sent = (client[c] = "ok")])

\* websocket_endpoint resumes from the status send (which is outside any
\* try) and creates the iterator over latest_signal_checks.items()
StatusSent(c) ==
    /\ ws[c].pc = "status"
    /\ ws[c].sent \/ client[c] = "broken"
    /\ IF ~ws[c].sent THEN Step(crash(App, c, "WebSocketDisconnect"))
       ELSE Step(replay_next(
                [App EXCEPT !.ws[c].size = Len(latest_signal_checks),
                            !.ws[c].pos = 0], c))

\* websocket_endpoint resumes from a replay send; its exception is passed
ReplaySent(c) ==
    /\ ws[c].pc = "replay"
    /\ ws[c].sent \/ client[c] = "broken"
    /\ Step(replay_next(App, c))

\* receive_text raises WebSocketDisconnect: manager.disconnect(websocket)
Disconnected(c) ==
    /\ ws[c].pc = "receive"
    /\ client[c] = "broken"
    /\ IF Contains(active_connections, c)
       THEN Step([App EXCEPT !.active_connections = Remove(@, c),
                                !.ws[c].pc = "closed"])
       ELSE Step([App EXCEPT !.ws[c].pc = "crashed",
                             !.ws[c].error = "ValueError"])

\* the peer closes its socket; the peer stops reading
ClientCloses(c) ==
    /\ client[c] \in {"ok", "hung"}
    /\ budget.closes > 0
    /\ Step([App EXCEPT !.client[c] = "broken", !.budget.closes = @ - 1])

ClientStalls(c) ==
    /\ client[c] = "ok"
    /\ budget.stalls > 0
    /\ Step([App EXCEPT !.client[c] = "hung", !.budget.stalls = @ - 1])

TaskStep(t) ==
    \/ SaveBarReturns(t)
    \/ SaveBarRaises(t)
    \/ SendReturns(t)
    \/ SendRaises(t)
    \/ GetBarsReturns(t)
    \/ SaveSignalReturns(t)
    \/ SaveSignalRaises(t)

EndpointStep(c) ==
    \/ Accepted(c)
    \/ StatusSent(c)
    \/ ReplaySent(c)
    \/ Disconnected(c)

NextApp ==
    \/ HandleBarFromThread
    \/ \E t \in TaskIds : TaskStep(t)
    \/ UpdateSettings
    \/ UpdateWatchlist
    \/ UpdateQuantity
    \/ UpdateGetBarsReturns
    \/ \E c \in Conns : Connect(c) \/ EndpointStep(c) \/ ClientCloses(c) \/ ClientStalls(c)

\* the application has started and a run is chosen; the SpecEngine variables
\* are unused here
InitLive ==
    /\ InitApp
    /\ engine = None
    /\ result = None
    /\ adds = 0
    /\ reloads = 0
    /\ StoreIdle
    /\ TradeIdle
    /\ PureIdle

SpecApp == InitLive /\ [][NextApp]_vars

-----------------------------------------------------------------------------
(* SpecEngine: one SignalEngine driven through add_bar, load_bars, reset   *)

MaxAdds == 2        \* add_bar calls explored after the seeded history
MaxReloads == 1     \* load_bars / reset calls explored on a live engine

\* BotTradeApp.start: the engine is created and seeded from the store
InitEngine ==
    /\ \E cfg \in Configs, k \in SeedLens :
          engine = IF k = 0 THEN SignalEngine(cfg)
                   ELSE load_bars(SignalEngine(cfg), SubSeq(SeedBars(Sym), 1, k))
    /\ result = None
    /\ adds = 0
    /\ reloads = 0
    /\ Started(Run(0, 0, 0, 0, 0, 0, 0))
    /\ StoreIdle
    /\ TradeIdle
    /\ PureIdle

AddBar ==
    /\ adds < MaxAdds
    /\ \E bar \in NewBars(Sym, Len(engine.bars) + 1) :
          LET r == add_bar(engine, bar)
          IN  /\ engine' = r.engine
              /\ result' = r.result
    /\ adds' = adds + 1
    /\ UNCHANGED <<reloads, varsApp, varsStore, varsTrade, varsPure>>

LoadBars ==
    /\ reloads < MaxReloads
    /\ \E k \in ReloadLens : engine' = load_bars(engine, SubSeq(SeedBars(Sym), 1, k))
    /\ result' = None
    /\ reloads' = reloads + 1
    /\ UNCHANGED <<adds, varsApp, varsStore, varsTrade, varsPure>>

Reset ==
    /\ reloads < MaxReloads
    /\ engine' = reset(engine)
    /\ result' = None
    /\ reloads' = reloads + 1
    /\ UNCHANGED <<adds, varsApp, varsStore, varsTrade, varsPure>>

NextEngine == AddBar \/ LoadBars \/ Reset

SpecEngine == InitEngine /\ [][NextEngine]_vars

-----------------------------------------------------------------------------
(* The BUY rule, on SpecEngine                                             *)

\* The four conditions of the BUY rule, stated on the engine e after the bar
\* was appended and its pivot recorded, with the MACD prev of the bar before.
Uptrend(e) ==
    /\ _count_higher_pairs(e.pivot_detector.pivot_lows) >= REQUIRED_PAIRS
    /\ _count_higher_pairs(e.pivot_detector.pivot_highs) >= REQUIRED_PAIRS

TouchesSupport(e, atr) ==
    /\ e.pivot_detector.pivot_lows # <<>>
    /\ LET pivot == Last(e.pivot_detector.pivot_lows)
           width == RMul(e.zone_width_atr_mult, atr)
           bar == Last(e.bars)
       IN  /\ RLe(Rat(bar.low), RAdd(Rat(pivot.price), width))
           /\ RLe(RSub(Rat(pivot.price), width), Rat(bar.high))

RsiAbove50(e) ==
    LET rsi == calculate_rsi(Closes(e.bars), e.rsi_period)
    IN  rsi # None /\ RLt(Rat(50), rsi)

Confirmed(e, prev) ==
    \/ check_macd_crossover(
           calculate_macd(Closes(e.bars), e.macd_fast, e.macd_slow, e.macd_signal),
           prev)
    \/ RsiAbove50(e)

AllFour(e, prev) ==
    /\ Len(e.bars) >= 2
    /\ LET atr == calculate_atr(e.bars, e.atr_period)
       IN  /\ atr # None
           /\ Uptrend(e)
           /\ TouchesSupport(e, atr)
           /\ detect_bullish_reversal(e.bars) # NoPattern
           /\ Confirmed(e, prev)

Fired == result # None /\ result.should_signal

\* C1: every add_bar returns should_signal = TRUE exactly when the engine
\* holds at least 2 bars, ATR is defined and all four conditions (uptrend,
\* bar overlapping the support zone, bullish reversal at the tail, MACD
\* bullish crossover or RSI > 50) hold on the state after the append; the
\* result carries a Signal exactly when should_signal is TRUE.
C1_SignalIffAllFour ==
    [][adds' = adds + 1 =>
          /\ result'.should_signal = AllFour(engine', engine.previous_macd)
          /\ result'.should_signal = (result'.signal # None)]_vars

\* C1 witness: an add_bar has fired a signal with its four reasons.
C1_Witness == Fired /\ Len(result.reasons) = 4 /\ result.signal # None

\* C2: every Signal returned with should_signal = TRUE has
\* stopLoss < entry < takeProfit (a result whose computed stop-loss is at or
\* above the entry would be check-only).
C2_StopBelowEntryBelowTarget ==
    Fired => /\ RLt(result.signal.stop_loss, result.signal.entry)
             /\ RLt(result.signal.entry, result.signal.take_profit)

\* C3: every Signal the engine produces is a BUY for the symbol and
\* timestamp of the triggering bar, entry = that bar's close, takeProfit =
\* entry + rr * (entry - stopLoss), quantity = the engine's default quantity,
\* status ACTIVE and originalSl = stopLoss.
C3_SignalFields ==
    Fired =>
        LET sig == result.signal
            bar == Last(engine.bars)
        IN  /\ sig.signal_type = "BUY"
            /\ sig.symbol = bar.symbol
            /\ sig.timestamp = bar.timestamp
            /\ sig.entry = Rat(bar.close)
            /\ sig.take_profit =
                  RAdd(sig.entry, RMul(engine.risk_reward_ratio,
                                       RSub(sig.entry, sig.stop_loss)))
            /\ sig.quantity = engine.default_quantity
            /\ sig.status = "ACTIVE"
            /\ sig.original_sl = sig.stop_loss

\* C3 witness: a fired signal whose stop-loss is not 0
C3_Witness == Fired /\ result.signal.stop_loss # Rat(0) /\ adds > 0

\* the precondition of scenario S6 on the engine e before the final bar
AscendingLast4(pivots) ==
    /\ Len(pivots) >= 4
    /\ \A i \in (Len(pivots) - 2)..Len(pivots) : pivots[i].price > pivots[i - 1].price

\* C4: when the bars before the final bar left at least four ascending
\* pivot-lows and four ascending pivot-highs, a final Hammer whose low lies
\* in [lastPivotLow - 0.2*ATR, lastPivotLow + 0.2*ATR] with RSI > 50 makes
\* add_bar fire a signal with stopLoss = prevPivotLow.price - 0.05*ATR,
\* lastPivotLow and prevPivotLow being the last two pivot-lows before the bar.
C4_HammerInZoneFires ==
    [][(/\ adds' = adds + 1
        /\ engine.zone_width_atr_mult = Frac(2, 10)
        /\ engine.sl_buffer_atr_mult = Frac(5, 100)
        /\ AscendingLast4(engine.pivot_detector.pivot_lows)
        /\ AscendingLast4(engine.pivot_detector.pivot_highs)
        /\ is_hammer(Last(engine'.bars))
        /\ RsiAbove50(engine')
        /\ LET atr == calculate_atr(engine'.bars, engine'.atr_period)
                lastPivotLow == Last(engine.pivot_detector.pivot_lows)
                width == RMul(Frac(2, 10), atr)
                low == Rat(Last(engine'.bars).low)
           IN  /\ RLe(RSub(Rat(lastPivotLow.price), width), low)
               /\ RLe(low, RAdd(Rat(lastPivotLow.price), width)))
       => /\ result'.should_signal
          /\ LET atr == calculate_atr(engine'.bars, engine'.atr_period)
                  lows == engine.pivot_detector.pivot_lows
                  prevPivotLow == lows[Len(lows) - 1]
             IN  result'.signal.stop_loss =
                     RSub(Rat(prevPivotLow.price), RMul(Frac(5, 100), atr))]_vars


-----------------------------------------------------------------------------
(* The live pipeline, on SpecApp                                           *)

\* the events task t has broadcast, in the order manager.broadcast was called
EventsOf(t) ==
    LET own == SelectSeq(broadcasts, LAMBDA m : m.task = t)
    IN  [k \in 1..Len(own) |-> own[k].event]

\* _on_bar_closed of task t has returned without entering its except clause
Completed(t) == tasks[t].pc = "done" /\ tasks[t].error = ""

\* C5: a handler that runs to completion has broadcast bar_closed, then
\* exactly one signal_check, then exactly one signal if the rule fired and
\* none if it did not.
C5_EventOrderPerBar ==
    \A t \in DOMAIN tasks :
        Completed(t) =>
            /\ tasks[t].added
            /\ EventsOf(t) = IF tasks[t].result.should_signal
                             THEN <<"bar_closed", "signal_check", "signal">>
                             ELSE <<"bar_closed", "signal_check">>

\* a handler has completed with a signal and another without one
C5_Witness ==
    \E t, u \in DOMAIN tasks :
        /\ Completed(t) /\ tasks[t].result.should_signal
        /\ Completed(u) /\ ~tasks[u].result.should_signal

\* C6: bars of one symbol reach the engine in delivery order, and every
\* event of a bar is broadcast before any event of a later bar of the symbol.
C6_PerSymbolOrder ==
    /\ \A i, j \in DOMAIN fed :
          (fed[i].symbol = fed[j].symbol /\ fed[i].timestamp < fed[j].timestamp)
              => i < j
    /\ \A i, j \in DOMAIN broadcasts :
          (broadcasts[i].symbol = broadcasts[j].symbol
           /\ broadcasts[i].timestamp < broadcasts[j].timestamp) => i < j

\* C7: a handler whose save_bar failed has still fed the bar and broadcast
\* bar_closed and signal_check; one whose save_signal failed has still
\* broadcast the signal.
C7_StoreFailureDoesNotBlockEvents ==
    \A t \in DOMAIN tasks :
        /\ (tasks[t].pc = "done" /\ tasks[t].error = "save_bar")
              => /\ tasks[t].added
                 /\ EventsOf(t) = <<"bar_closed", "signal_check">>
                    \/ EventsOf(t) = <<"bar_closed", "signal_check", "signal">>
        /\ (tasks[t].pc = "done" /\ tasks[t].error = "save_signal")
              => EventsOf(t) = <<"bar_closed", "signal_check", "signal">>

\* the broadcast that sent message m has returned or raised
BroadcastOver(m) ==
    \/ tasks[m.task].pc \notin {"send"}
    \/ tasks[m.task].ev # m.event

\* C8: failed deliveries remove the failing subscriber only, raise nothing
\* into the handler (every handler that has ended without a store fault or a
\* missing engine has fed its bar and broadcast its signal_check), and leave
\* the other subscribers served: a subscriber connected since the start
\* whose peer reads is still registered and has every event of every
\* broadcast that is over.
C8_FailedDeliveryIsContained ==
    /\ \A t \in DOMAIN tasks :
          (tasks[t].pc = "done" /\ tasks[t].error \notin {"save_bar", "save_signal", "KeyError"})
              => /\ tasks[t].added
                 /\ \E k \in DOMAIN broadcasts :
                       broadcasts[k].task = t /\ broadcasts[k].event = "signal_check"
    /\ \A c \in Conns :
          (budget.streaming >= IndexOf(Connections, c) /\ client[c] = "ok")
              => /\ Contains(active_connections, c)
                 /\ \A k \in DOMAIN broadcasts :
                       BroadcastOver(broadcasts[k])
                           => Contains(delivered[c], broadcasts[k])

\* the messages send_personal sent to c
Personal(c) == SelectSeq(delivered[c], LAMBDA m : m.task = 0)

\* C10: a subscriber whose peer reads gets the system status first and then,
\* once the endpoint has left the replay, exactly one signal_check of every
\* symbol cached since the start; no exception ends the replay.
C10_ReplayOnConnect ==
    \A c \in Conns :
        /\ ws[c].error # "RuntimeError"
        /\ (client[c] = "ok" /\ ws[c].pc \in {"replay", "receive"})
              => Personal(c)[1].event = "system"
        /\ (client[c] = "ok" /\ ws[c].pc = "receive")
              => \A k \in DOMAIN InitialChecks :
                    Cardinality({j \in DOMAIN Personal(c) :
                                    /\ Personal(c)[j].event = "signal_check"
                                    /\ Personal(c)[j].symbol = InitialChecks[k].symbol}) = 1

-----------------------------------------------------------------------------
(* SpecAppFair: the event loop runs every coroutine whose await is over    *)

\* the await coroutine t is suspended at is over: the guard of TaskStep(t),
\* and of UpdateWatchlist, UpdateQuantity and UpdateGetBarsReturns for the
\* updater
CanResume(t) ==
    \/ t = Updater /\ wl.pc \in {"save_setting", "save_quantity", "get_bars"} /\ Served(Updater)
    \/ /\ t \in DOMAIN tasks
       /\ \/ tasks[t].pc \in {"save_bar", "get_bars", "save_signal"} /\ Served(t)
          \/ tasks[t].pc \in {"save_bar", "save_signal"} /\ budget.faults > 0
          \/ tasks[t].pc = "send" /\ (tasks[t].sent \/ client[tasks[t].target] = "broken")

\* the event loop resumes coroutine t
Resume(t) == CanResume(t) /\ resumptions' = [resumptions EXCEPT ![t] = @ + 1]

SpecAppFair ==
    /\ InitLive
    /\ [][NextApp]_vars
    /\ \A t \in TaskIds \cup {Updater} : WF_resumptions(Resume(t))

\* C9: every bar handed to the pipeline is eventually fed to its engine (or
\* its handler has ended), whatever a subscriber that stopped reading does.
C9_HungSubscriberNeverBlocks ==
    \A tid \in TaskIds :
        (tid \in DOMAIN tasks)
            ~> (tid \in DOMAIN tasks /\ (tasks[tid].added \/ tasks[tid].pc = "done"))

-----------------------------------------------------------------------------
(* Watchlist removal, on SpecApp                                           *)

\* update_watchlist has removed s from the start watchlist (an update adds
\* and removes once per run, so s has not been added back)
Removed(s) == Contains(StartSymbols, s) /\ s \notin subscribed

\* the messages the step has broadcast
NewBroadcasts == SubSeq(broadcasts', Len(broadcasts) + 1, Len(broadcasts'))

\* C11: once update_watchlist has removed symbol s, no step creates an
\* engine for s again and no step broadcasts a signal_check or signal of s.
C11_RemovedSymbolIsDiscarded ==
    [][\A s \in Symbols :
          Removed(s)
             => /\ signal_engines'[s] = None
                /\ \A k \in 1..Len(NewBroadcasts) :
                      ~(/\ NewBroadcasts[k].symbol = s
                        /\ NewBroadcasts[k].event \in {"signal_check", "signal"})]_vars

-----------------------------------------------------------------------------
(* SpecStore: the bars table driven through save_bar, save_bars, get_bars  *)

MaxSaves == 3       \* bars saved in a run

Timeframes == {"1H", "1D"}
Limits == 1..3

\* The timestamps of the bars saved: aware datetimes as _parse_bar builds
\* them from ISO text (10:00+07:00 is the instant 03:00+00:00), and naive
\* ones as it builds them from Unix time.
AwareStamps ==
    { datetime(10, Some(7)), datetime(3, Some(0)), datetime(4, Some(0)),
      datetime(5, Some(0)) }
NaiveStamps == { datetime(4, None), datetime(10, None) }

\* the bars save_bar is called with: price and volume v tell one save of a
\* key from another
StoreBar(symbol, timeframe, timestamp, v) ==
    OHLCV(symbol, timeframe, timestamp, v, v, v, v, v)

StoreBars ==
    { StoreBar("VNM", "1H", ts, v) : ts \in AwareStamps \cup NaiveStamps, v \in 1..2 }
    \cup { StoreBar("VNM", "1D", datetime(5, Some(0)), 3),
           StoreBar("FPT", "1H", datetime(5, Some(0)), 4) }

\* the lists save_bars is called with
StoreBatches ==
    { <<StoreBar("VNM", "1H", datetime(5, Some(0)), 1),
        StoreBar("VNM", "1H", datetime(4, Some(0)), 1)>>,
      <<StoreBar("VNM", "1H", datetime(4, Some(0)), 1),
        StoreBar("VNM", "1H", datetime(4, Some(0)), 2)>>,
      <<StoreBar("VNM", "1H", datetime(10, None), 2),
        StoreBar("VNM", "1H", datetime(4, None), 2)>> }

\* Python can order the timestamp with those saved: all naive or all aware
Comparable(timestamp) ==
    \A k \in 1..Len(saved) :
        (saved[k].timestamp.tzinfo = None) = (timestamp.tzinfo = None)

SaveBar ==
    /\ Len(saved) < MaxSaves
    /\ \E bar \in StoreBars :
          /\ Comparable(bar.timestamp)
          /\ bars_table' = save_bar(bars_table, bar)
          /\ saved' = Append(saved, bar)
    /\ UNCHANGED <<fetched, varsEngine, varsApp, varsTrade, varsPure>>

SaveBars ==
    /\ \E bars \in StoreBatches :
          /\ Len(saved) + Len(bars) <= MaxSaves
          /\ \A k \in 1..Len(bars) : Comparable(bars[k].timestamp)
          /\ bars_table' = save_bars(bars_table, bars)
          /\ saved' = saved \o bars
    /\ UNCHANGED <<fetched, varsEngine, varsApp, varsTrade, varsPure>>

GetBars ==
    /\ \E symbol \in {"VNM", "FPT"}, timeframe \in Timeframes, limit \in Limits :
          fetched' = [symbol |-> symbol, timeframe |-> timeframe, limit |-> limit,
                      bars |-> Database_get_bars(bars_table, symbol, timeframe, limit)]
    /\ UNCHANGED <<bars_table, saved, varsEngine, varsApp, varsTrade, varsPure>>

InitStore ==
    /\ StoreIdle
    /\ TradeIdle
    /\ PureIdle
    /\ engine = None
    /\ result = None
    /\ adds = 0
    /\ reloads = 0
    /\ Started(Run(0, 0, 0, 0, 0, 0, 0))

NextStore == SaveBar \/ SaveBars \/ GetBars

SpecStore == InitStore /\ [][NextStore]_vars

-----------------------------------------------------------------------------
(* The bars table, on SpecStore                                            *)

\* two bars have the same key: symbol, timeframe and timestamp (the same
\* wall-clock time with the same tzinfo)
SameKey(a, b) ==
    /\ a.symbol = b.symbol
    /\ a.timeframe = b.timeframe
    /\ a.timestamp = b.timestamp

\* the bar saved last with the key of bar
LastSaved(bar) ==
    saved[CHOOSE k \in 1..Len(saved) :
              /\ SameKey(saved[k], bar)
              /\ \A j \in (k + 1)..Len(saved) : ~SameKey(saved[j], bar)]

\* the bars the rows of the table stand for
StoredBars == [k \in 1..Len(bars_table.rows) |-> row_bar(bars_table.rows[k])]

Earlier(a, b) ==
    IF a.tzinfo = None THEN a.hour < b.hour ELSE utc_hour(a) < utc_hour(b)

\* the bars the store holds for symbol and timeframe: of each key saved
\* with them, the bar saved last
Held(symbol, timeframe) ==
    { LastSaved(saved[k]) :
        k \in { j \in 1..Len(saved) : /\ saved[j].symbol = symbol
                                      /\ saved[j].timeframe = timeframe } }

\* C13: get_bars(symbol, timeframe, N) returns N of the bars held for
\* (symbol, timeframe), all of them when there are fewer, each once, in
\* ascending order of timestamp, and no bar left out has a timestamp
\* greater than one returned.
C13_GetBarsLatestAscending ==
    [][fetched' # fetched
          => LET bars == fetched'.bars
                 held == Held(fetched'.symbol, fetched'.timeframe)
             IN  /\ Len(bars) = MinInt(fetched'.limit, Cardinality(held))
                 /\ \A i \in 1..Len(bars) : bars[i] \in held
                 /\ \A i, j \in 1..Len(bars) :
                       i < j => /\ bars[i] # bars[j]
                                /\ ~Earlier(bars[j].timestamp, bars[i].timestamp)
                 /\ \A b \in held :
                       (\A i \in 1..Len(bars) : bars[i] # b)
                          => \A i \in 1..Len(bars) :
                                ~Earlier(bars[i].timestamp, b.timestamp)]_vars

-----------------------------------------------------------------------------
(* The signals table, on SpecApp                                           *)

\* the rows of the signals table that hold the signal of bar
SignalRows(bar) ==
    { k \in 1..Len(db_signals) : /\ db_signals[k].symbol = bar.symbol
                                 /\ db_signals[k].timestamp = bar.timestamp }

-----------------------------------------------------------------------------
(* SpecFollow: one Signal followed bar by bar, as _check_positions follows *)
(* an open position: `if should_move_to_breakeven(high): move_to_breakeven`*)

MaxHighs == 3        \* bar highs applied to the followed Signal

Highs == 3..9

\* The Signals followed: as the engine creates them (stop below the entry,
\* or at or above it when the previous pivot low lies above the close), and
\* as Database.get_signals rebuilds them with a stored status.
FollowedSignals ==
    { [Signal(Sym, 1, Rat(entry), stop, Rat(9), 1, <<>>) EXCEPT !.status = status] :
        entry \in {5, 6},
        stop \in {Rat(0), Rat(3), Frac(9, 2), Rat(5), Rat(7)},
        status \in {"ACTIVE", "BREAKEVEN", "CANCELLED"} }

InitFollow ==
    /\ followed \in FollowedSignals
    /\ applied = <<>>
    /\ backtest = <<>>
    /\ reports = <<>>
    /\ PureIdle
    /\ engine = None
    /\ result = None
    /\ adds = 0
    /\ reloads = 0
    /\ Started(Run(0, 0, 0, 0, 0, 0, 0))
    /\ StoreIdle

\* backtest.py 259-260 on a bar whose high is `high`
ApplyHigh ==
    /\ Len(applied) < MaxHighs
    /\ \E high \in Highs :
          LET after == IF should_move_to_breakeven(followed, high)
                       THEN move_to_breakeven(followed)
                       ELSE followed
          IN  /\ followed' = after
              /\ applied' = Append(applied, [high |-> high, before |-> followed,
                                             after |-> after])
    /\ UNCHANGED <<backtest, reports, varsEngine, varsApp, varsStore, varsPure>>

NextFollow == ApplyHigh

SpecFollow == InitFollow /\ [][NextFollow]_vars

\* the applications that moved the stop
Moves == { k \in 1..Len(applied) : applied[k].after # applied[k].before }

\* the Signal as it was before the first high was applied
Initial == IF applied = <<>> THEN followed ELSE applied[1].before

\* C15: over any sequence of highs the stop is moved at most once; a move
\* starts from status ACTIVE with stop_loss < entry at a high that reaches
\* entry + |entry - stop_loss|, and sets stop_loss to the entry and the status
\* to BREAKEVEN; from then on should_move_to_breakeven is false at every
\* price, and original_sl is still the stop the Signal was created with.
C15_BreakevenAtMostOnce ==
    /\ Cardinality(Moves) <= 1
    /\ \A k \in Moves :
          LET b == applied[k].before
          IN  /\ b.status = "ACTIVE"
              /\ RLt(b.stop_loss, b.entry)
              /\ RLe(RAdd(b.entry, RAbs(RSub(b.entry, b.stop_loss))),
                     Rat(applied[k].high))
              /\ applied[k].after = [b EXCEPT !.stop_loss = b.entry,
                                              !.status = "BREAKEVEN"]
              /\ \A j \in k + 1 .. Len(applied), price \in Highs :
                    ~should_move_to_breakeven(applied[j].before, price)
              /\ \A price \in Highs : ~should_move_to_breakeven(followed, price)
    /\ \A k \in 1..Len(applied) :
          /\ k \notin Moves =>
                ~(/\ applied[k].before.status = "ACTIVE"
                  /\ RLt(applied[k].before.stop_loss, applied[k].before.entry)
                  /\ RLe(RAdd(applied[k].before.entry,
                              RAbs(RSub(applied[k].before.entry,
                                        applied[k].before.stop_loss))),
                         Rat(applied[k].high)))
          /\ applied[k].after.original_sl = Initial.stop_loss
    /\ followed.original_sl = Initial.stop_loss

\* the stop was moved by the first high and two more highs, one of them above
\* the breakeven price, were applied afterwards
C15_Witness ==
    /\ Len(applied) = 3
    /\ Moves = {1}
    /\ applied[3].high > applied[1].high
    /\ followed.status = "BREAKEVEN"
    /\ followed.stop_loss = followed.entry

-----------------------------------------------------------------------------
(* backtest.py: BacktestEngine                                             *)

\* a dict keyed by symbol, as its items [symbol, value] in insertion order
dict_has(items, symbol) == \E k \in 1..Len(items) : items[k].symbol = symbol

dict_get(items, symbol) ==
    items[CHOOSE k \in 1..Len(items) : items[k].symbol = symbol].value

dict_set(items, symbol, value) ==
    IF dict_has(items, symbol)
    THEN [k \in 1..Len(items) |->
             IF items[k].symbol = symbol THEN [symbol |-> symbol, value |-> value]
             ELSE items[k]]
    ELSE Append(items, [symbol |-> symbol, value |-> value])

dict_del(items, symbol) ==
    LET Other(item) == item.symbol # symbol
    IN  SelectSeq(items, Other)

\* int(x): truncation towards zero
int(x) == IF x.n >= 0 THEN x.n \div x.d ELSE -((-x.n) \div x.d)

Trade(signal, entry_time, exit_time, entry_price, exit_price, quantity, pnl, pnl_percent, exit_reason) ==
    [signal |-> signal, entry_time |-> entry_time, exit_time |-> exit_time,
     entry_price |-> entry_price, exit_price |-> exit_price,
     quantity |-> quantity, pnl |-> pnl, pnl_percent |-> pnl_percent,
     exit_reason |-> exit_reason]

\* BacktestEngine.__init__; `running` is the frame of run while a call of it
\* is in progress
BacktestEngine(initial_capital, position_size_percent, signal_engine_kwargs) ==
    [initial_capital |-> initial_capital,
     position_size_percent |-> position_size_percent,
     signal_engine_kwargs |-> signal_engine_kwargs,
     capital |-> initial_capital,
     peak_capital |-> initial_capital,
     max_drawdown |-> Rat(0),
     active_positions |-> <<>>,
     trades |-> <<>>,
     equity_curve |-> <<>>,
     running |-> None]

\* the symbols of bars (the keys of _group_bars_by_symbol)
bar_symbols(bars) == { bars[k].symbol : k \in 1..Len(bars) }

\* sorted(bars, key=lambda b: b.timestamp): a stable sort
RECURSIVE sorted_from(_, _, _)
sorted_from(done, bars, k) ==
    IF k > Len(bars) THEN done
    ELSE LET NotLater(b) == b.timestamp <= bars[k].timestamp
             Later(b) == b.timestamp > bars[k].timestamp
         IN  sorted_from(SelectSeq(done, NotLater) \o <<bars[k]>>
                             \o SelectSeq(done, Later),
                         bars, k + 1)

sorted_by_timestamp(bars) == sorted_from(<<>>, bars, 1)

\* _handle_signal without `if signal.symbol in self.active_positions: return`
_handle_signal_always(b, signal, bar) ==
    LET position_value ==
            RMul(b.capital, RDiv(b.position_size_percent, Rat(100)))
        quantity == int(RDiv(position_value, signal.entry))
    IN  IF quantity <= 0 THEN b
        ELSE [b EXCEPT !.active_positions =
                  dict_set(@, signal.symbol, [signal EXCEPT !.quantity = quantity])]

_handle_signal(b, signal, bar) ==
    LET position_value ==
            RMul(b.capital, RDiv(b.position_size_percent, Rat(100)))
        quantity == int(RDiv(position_value, signal.entry))
    IN  IF dict_has(b.active_positions, signal.symbol) THEN b
        ELSE IF quantity <= 0 THEN b
        ELSE [b EXCEPT !.active_positions =
                  dict_set(@, signal.symbol, [signal EXCEPT !.quantity = quantity])]

\* _check_positions from `if exit_price:` on, for a truthy exit_price
exit_position(b, bar, signal, exit_price, exit_reason) ==
    LET pnl == RMul(RSub(exit_price, signal.entry), Rat(signal.quantity))
        pnl_percent ==
            RMul(RDiv(RSub(exit_price, signal.entry), signal.entry), Rat(100))
        trade == Trade(signal, signal.timestamp, bar.timestamp, signal.entry,
                       exit_price, signal.quantity, pnl, pnl_percent, exit_reason)
    IN  [b EXCEPT !.trades = Append(@, trade),
                  !.capital = RAdd(@, pnl),
                  !.active_positions = dict_del(@, bar.symbol)]

\* _check_positions with the take-profit test before the stop-loss test
_check_positions_tp_first(b, bar) ==
    IF ~dict_has(b.active_positions, bar.symbol) THEN b
    ELSE LET signal == dict_get(b.active_positions, bar.symbol)
         IN  IF RLe(signal.take_profit, Rat(bar.high))
             THEN IF signal.take_profit = Rat(0) THEN b
                  ELSE exit_position(b, bar, signal, signal.take_profit, "TP")
             ELSE IF RLe(Rat(bar.low), signal.stop_loss)
             THEN IF signal.stop_loss = Rat(0) THEN b
                  ELSE exit_position(b, bar, signal, signal.stop_loss, "SL")
             ELSE IF should_move_to_breakeven(signal, bar.high)
             THEN [b EXCEPT !.active_positions =
                       dict_set(@, bar.symbol, move_to_breakeven(signal))]
             ELSE b

\* `if exit_price:` is false for an exit price of 0.0 as well as for None
_check_positions(b, bar) ==
    IF ~dict_has(b.active_positions, bar.symbol) THEN b
    ELSE LET signal == dict_get(b.active_positions, bar.symbol)
         IN  IF RLe(Rat(bar.low), signal.stop_loss)
             THEN IF signal.stop_loss = Rat(0) THEN b
                  ELSE exit_position(b, bar, signal, signal.stop_loss, "SL")
             ELSE IF RLe(signal.take_profit, Rat(bar.high))
             THEN IF signal.take_profit = Rat(0) THEN b
                  ELSE exit_position(b, bar, signal, signal.take_profit, "TP")
             ELSE IF should_move_to_breakeven(signal, bar.high)
             THEN [b EXCEPT !.active_positions =
                       dict_set(@, bar.symbol, move_to_breakeven(signal))]
             ELSE b

\* a loop body that keeps the current drawdown instead of the largest
track_equity_last_drawdown(b, bar) ==
    LET peak == RMax(b.peak_capital, b.capital)
        current_dd == RDiv(RSub(peak, b.capital), peak)
    IN  [b EXCEPT !.equity_curve = Append(@, <<bar.timestamp, b.capital>>),
                  !.peak_capital = peak,
                  !.max_drawdown = current_dd]

\* run from `self.equity_curve.append(...)` to the end of the loop body
track_equity(b, bar) ==
    LET peak == RMax(b.peak_capital, b.capital)
        current_dd == RDiv(RSub(peak, b.capital), peak)
    IN  [b EXCEPT !.equity_curve = Append(@, <<bar.timestamp, b.capital>>),
                  !.peak_capital = peak,
                  !.max_drawdown = RMax(@, current_dd)]

\* the loop body from `if result and result.should_signal and result.signal`
\* on, with checked the engine after _check_positions and r what add_bar
\* has returned
handle_result(checked, bar, r) ==
    LET fired == r.result # None /\ r.result.should_signal /\ r.result.signal # None
        handled == IF fired THEN _handle_signal(checked, r.result.signal, bar)
                   ELSE checked
    IN  CHOOSE pass \in
            { [engine |-> [track_equity(h, bar)
                              EXCEPT !.running.engines[bar.symbol] = r.engine,
                                     !.running.k = @ + 1],
               result |-> r.result] : h \in {handled} } : TRUE

\* the body of the loop of run for all_bars[k]: the engine after it, and
\* the SignalCheckResult of add_bar
run_bar(b, bar) ==
    CHOOSE pass \in
        { handle_result(checked, bar, r) :
              checked \in {_check_positions(b, bar)},
              r \in {add_bar(b.running.engines[bar.symbol], bar)} } : TRUE

\* run up to the loop: a SignalEngine per symbol, the bars sorted
run_starts(b, bars) ==
    [b EXCEPT !.running =
        [bars |-> bars,
         engines |-> [symbol \in bar_symbols(bars) |->
                         SignalEngine(b.signal_engine_kwargs)],
         all_bars |-> sorted_by_timestamp(bars),
         k |-> 1]]

\* float('inf')
Infinity == [n |-> 1, d |-> 0]

\* the metrics of a BacktestResult as the dataclass defaults them
NoMetrics ==
    [total_trades |-> 0, winning_trades |-> 0, losing_trades |-> 0,
     win_rate |-> Rat(0), profit_factor |-> Rat(0),
     average_win |-> Rat(0), average_loss |-> Rat(0)]

\* the pnl of the trades, in order
pnl_of(trades) == ToSeq([k \in 1..Len(trades) |-> trades[k].pnl])

calculate_metrics(r) ==
    IF r.trades = <<>> THEN r
    ELSE LET IsWin(t) == RLt(Rat(0), t.pnl)
             IsLoss(t) == RLe(t.pnl, Rat(0))
             wins == SelectSeq(r.trades, IsWin)
             losses == SelectSeq(r.trades, IsLoss)
             total_wins == RSum(pnl_of(wins))
             total_losses == RAbs(RSum(pnl_of(losses)))
         IN  [r EXCEPT !.total_trades = Len(r.trades),
                       !.winning_trades = Len(wins),
                       !.losing_trades = Len(losses),
                       !.win_rate = IF Len(r.trades) > 0
                                    THEN RMul(Frac(Len(wins), Len(r.trades)), Rat(100))
                                    ELSE Rat(0),
                       !.profit_factor = IF RLt(Rat(0), total_losses)
                                         THEN RDiv(total_wins, total_losses)
                                         ELSE Infinity,
                       !.average_win = IF wins # <<>>
                                       THEN RDiv(total_wins, Rat(Len(wins)))
                                       ELSE Rat(0),
                       !.average_loss = IF losses # <<>>
                                        THEN RDiv(total_losses, Rat(Len(losses)))
                                        ELSE Rat(0)]

\* f"{x:.2f}": "inf" for infinity, else the value to two decimals
format_2f(x) ==
    IF x = Infinity THEN [inf |-> TRUE, value |-> Rat(0)]
    ELSE [inf |-> FALSE, value |-> round2(x)]

\* BacktestResult.to_dict, the entries that hold metrics
to_dict(r) ==
    [total_trades |-> r.total_trades,
     winning_trades |-> r.winning_trades,
     losing_trades |-> r.losing_trades,
     win_rate |-> round2(r.win_rate),
     profit_factor |-> format_2f(r.profit_factor),
     average_win |-> r.average_win,
     average_loss |-> r.average_loss]

\* the BacktestResult run builds, before calculate_metrics
BacktestResult(b, all_bars) ==
    [start_date |-> all_bars[1].timestamp,
     end_date |-> all_bars[Len(all_bars)].timestamp,
     initial_capital |-> b.initial_capital,
     final_capital |-> b.capital,
     total_pnl |-> RSub(b.capital, b.initial_capital),
     max_drawdown |-> RMul(b.max_drawdown, b.initial_capital),
     trades |-> b.trades] @@ NoMetrics

BacktestEngine_reset(b) ==
    [b EXCEPT !.capital = b.initial_capital,
              !.peak_capital = b.initial_capital,
              !.max_drawdown = Rat(0),
              !.active_positions = <<>>,
              !.trades = <<>>,
              !.equity_curve = <<>>]

-----------------------------------------------------------------------------
(* SpecBacktest: BacktestEngine instances driven through run and reset     *)

MaxEngines == 2      \* BacktestEngine instances constructed
MaxRuns == 2         \* calls of run, over all instances

\* initial_capital: enough for 14 units at the first entry price, and too
\* little for one
Capitals == {1000, 40}

\* the bars run is called with: the stored history of a symbol (its last
\* hammer fires a BUY at 7 with stop 2.85 and target 15.3), followed by
\* a higher star and hammer (a second BUY while the position is open) and a
\* bar spanning both stop and target; or by a star that reaches the breakeven
\* price and a fall through the entry, given out of order; or by a bar that
\* reaches the target only; or two symbols side by side; or no bars
Histories ==
    { SeedBars(Sym) \o << Star(Sym, 10, 10), Hammer(Sym, 11, 5),
                          Bar(Sym, 12, 7, 16, 2, 7) >>,
      SeedBars(Sym) \o << Bar(Sym, 11, 3, 3, 1, 1), Star(Sym, 10, 12) >>,
      SeedBars(Sym) \o << Bar(Sym, 10, 7, 16, 6, 16) >>,
      [k \in 1..18 |-> IF k % 2 = 1 THEN SeedBars("FPT")[(k + 1) \div 2]
                       ELSE SeedBars(Sym)[k \div 2]],
      <<>> }

\* datetime.now() as run reads it when it is given no bars
Clock == {20, 21}

InitBacktest ==
    /\ backtest = <<>>
    /\ reports = <<>>
    /\ PureIdle
    /\ followed = None
    /\ applied = <<>>
    /\ engine = None
    /\ result = None
    /\ adds = 0
    /\ reloads = 0
    /\ Started(Run(0, 0, 0, 0, 0, 0, 0))
    /\ StoreIdle

\* run is synchronous: while a call is in progress nothing else runs
InRun(i) == backtest[i].running # None

NoRun == \A i \in 1..Len(backtest) : ~InRun(i)

\* BacktestEngine(initial_capital=capital), with the default position size
\* of 10 percent
Construct ==
    /\ NoRun
    /\ Len(backtest) < MaxEngines
    /\ \E capital \in Capitals :
          backtest' = Append(backtest, BacktestEngine(Rat(capital), Rat(10), settings))
    /\ UNCHANGED <<reports, followed, applied, varsEngine, varsApp, varsStore, varsPure>>

\* what a call of run has returned, with the equity curve of its engine
Report(i, bars, res) ==
    [engine |-> i, bars |-> bars, result |-> res,
     equity_curve |-> backtest[i].equity_curve,
     initial_capital |-> backtest[i].initial_capital]

\* run is called: it returns at once when there are no bars, and enters its
\* loop otherwise
RunCalled ==
    /\ NoRun
    /\ Len(reports) < MaxRuns
    /\ \E i \in 1..Len(backtest), bars \in Histories :
          IF bars = <<>>
          THEN /\ \E now \in Clock :
                     reports' = Append(reports,
                         Report(i, bars,
                                [start_date |-> now, end_date |-> now,
                                 initial_capital |-> backtest[i].initial_capital,
                                 final_capital |-> backtest[i].initial_capital,
                                 total_pnl |-> Rat(0), max_drawdown |-> Rat(0),
                                 trades |-> <<>>] @@ NoMetrics))
               /\ UNCHANGED backtest
          ELSE /\ backtest' = [backtest EXCEPT ![i] = run_starts(@, bars)]
               /\ UNCHANGED reports
    /\ UNCHANGED <<followed, applied, varsEngine, varsApp, varsStore, varsPure>>

\* one pass of the loop of run
RunBar ==
    /\ \E i \in 1..Len(backtest) :
          /\ InRun(i)
          /\ backtest[i].running.k <= Len(backtest[i].running.all_bars)
          /\ \E r \in {run_bar(backtest[i],
                                backtest[i].running.all_bars[backtest[i].running.k])} :
                 /\ backtest' = [backtest EXCEPT ![i] = r.engine]
                 /\ result' = r.result
    /\ UNCHANGED <<reports, followed, applied, engine, adds, reloads, varsApp, varsStore, varsPure>>

\* the loop is over: run builds its result and returns
RunReturns ==
    /\ \E i \in 1..Len(backtest) :
          /\ InRun(i)
          /\ backtest[i].running.k > Len(backtest[i].running.all_bars)
          /\ reports' = Append(reports,
                 Report(i, backtest[i].running.bars,
                        calculate_metrics(
                            BacktestResult(backtest[i],
                                           backtest[i].running.all_bars))))
          /\ backtest' = [backtest EXCEPT ![i].running = None]
    /\ UNCHANGED <<followed, applied, varsEngine, varsApp, varsStore, varsPure>>

ResetBacktest ==
    /\ NoRun
    /\ \E i \in 1..Len(backtest) :
          /\ backtest[i] # BacktestEngine_reset(backtest[i])
          /\ backtest' = [backtest EXCEPT ![i] = BacktestEngine_reset(@)]
    /\ UNCHANGED <<reports, followed, applied, varsEngine, varsApp, varsStore, varsPure>>

NextBacktest == Construct \/ RunCalled \/ RunBar \/ RunReturns \/ ResetBacktest

SpecBacktest == InitBacktest /\ [][NextBacktest]_vars

-----------------------------------------------------------------------------
(* The exits and the positions of the backtester, on SpecBacktest          *)

\* the step is a pass of the loop of run on engine i
LoopPass(i) ==
    /\ i <= Len(backtest)
    /\ InRun(i)
    /\ backtest'[i].running # None
    /\ backtest'[i].running.k = backtest[i].running.k + 1

\* the bar the next pass of the loop of engine i handles
PassBar(i) == backtest[i].running.all_bars[backtest[i].running.k]

\* the open position of engine b for symbol, or None
Position(b, symbol) ==
    LET held == { k \in 1..Len(b.active_positions) :
                      b.active_positions[k].symbol = symbol }
    IN  IF held = {} THEN None
        ELSE b.active_positions[CHOOSE k \in held : TRUE].value

\* the pass closes position pos at price, for reason: one trade more, which
\* is that of pos, and pos is no longer open
ClosesAt(b, after, bar, pos, price, reason) ==
    /\ Len(after.trades) = Len(b.trades) + 1
    /\ SubSeq(after.trades, 1, Len(b.trades)) = b.trades
    /\ LET trade == after.trades[Len(after.trades)]
       IN  /\ trade.signal = pos
           /\ trade.exit_price = price
           /\ trade.exit_reason = reason
           /\ trade.exit_time = bar.timestamp
    /\ Position(after, bar.symbol) # pos
    /\ Position(after, bar.symbol) # None
          => Position(after, bar.symbol).timestamp = bar.timestamp

\* the breakeven condition of a position on a bar
BreakevenDue(pos, bar) ==
    /\ pos.status = "ACTIVE"
    /\ RLt(pos.stop_loss, pos.entry)
    /\ RLe(RAdd(pos.entry, RAbs(RSub(pos.entry, pos.stop_loss))), Rat(bar.high))

C17_OnePositionPerSymbol ==
    [][\A i \in 1..MaxEngines :
          LoopPass(i) =>
              LET b == backtest[i]
                  after == backtest'[i]
                  bar == PassBar(i)
                  pos == Position(b, bar.symbol)
                  held == pos # None /\ Len(after.trades) = Len(b.trades)
                  fired == result'.should_signal /\ result'.signal # None
                  quantity ==
                      RFloor(RDiv(RDiv(RMul(after.capital, b.position_size_percent),
                                       Rat(100)),
                                  result'.signal.entry))
              IN  /\ \A symbol \in {"VNM", "FPT"} :
                        /\ Cardinality({ k \in 1..Len(after.active_positions) :
                               after.active_positions[k].symbol = symbol }) <= 1
                        /\ symbol # bar.symbol =>
                               Position(after, symbol) = Position(b, symbol)
                  /\ IF held
                     THEN Position(after, bar.symbol) \in {pos, move_to_breakeven(pos)}
                     ELSE IF fired /\ quantity > 0
                     THEN Position(after, bar.symbol) =
                              [result'.signal EXCEPT !.quantity = quantity]
                     ELSE Position(after, bar.symbol) = None]_vars

\* a second signal has fired for a symbol whose position, of 14 units, is
\* still open
C17_Witness ==
    /\ result # None
    /\ result.should_signal
    /\ \E i \in 1..Len(backtest) :
          /\ InRun(i)
          /\ Position(backtest[i], result.signal.symbol) # None
          /\ Position(backtest[i], result.signal.symbol).timestamp
                 < result.signal.timestamp
          /\ Position(backtest[i], result.signal.symbol).quantity = 14

\* C18: any two calls of run with the same bars, on engines of the same
\* configuration, return the same trades and leave the same equity curve,
\* be they made on two engines or one after the other on one engine.
C18_RunsAreDeterministic ==
    \A m, n \in 1..Len(reports) :
        /\ reports[m].bars = reports[n].bars
        /\ reports[m].initial_capital = reports[n].initial_capital
        => /\ reports[m].result.trades = reports[n].result.trades
           /\ reports[m].equity_curve = reports[n].equity_curve

-----------------------------------------------------------------------------
(* The pivots of the engine, on SpecEngine                                 *)

\* the bar_index values of a pivot list, in insertion order, rise strictly
Rising(pivots) ==
    \A k \in 1..(Len(pivots) - 1) : pivots[k].bar_index < pivots[k + 1].bar_index

BarIndexes(pivots) == { pivots[k].bar_index : k \in 1..Len(pivots) }

\* every pivot of e points at a bar of e.bars that has its price
PivotsPointAtBars(e) ==
    /\ \A k \in 1..Len(e.pivot_detector.pivot_lows) :
          LET pivot == e.pivot_detector.pivot_lows[k]
          IN  /\ pivot.bar_index \in 0..(Len(e.bars) - 1)
              /\ e.bars[pivot.bar_index + 1].low = pivot.price
    /\ \A k \in 1..Len(e.pivot_detector.pivot_highs) :
          LET pivot == e.pivot_detector.pivot_highs[k]
          IN  /\ pivot.bar_index \in 0..(Len(e.bars) - 1)
              /\ e.bars[pivot.bar_index + 1].high = pivot.price

PivotsOrdered(e) ==
    /\ Rising(e.pivot_detector.pivot_lows)
    /\ Rising(e.pivot_detector.pivot_highs)
    /\ BarIndexes(e.pivot_detector.pivot_lows)
           \cap BarIndexes(e.pivot_detector.pivot_highs) = {}
    /\ PivotsPointAtBars(e)

\* the pivots a list has gained in the step
Gained(before, after) == SubSeq(after, Len(before) + 1, Len(after))

\* C19: after every add_bar, load_bars and reset the bar_index values rise
\* strictly within pivot_lows and within pivot_highs, no bar_index is in both
\* lists, and every pivot points at a bar of the history whose low (pivot low)
\* or high (pivot high) is its price; an add_bar adds at most one pivot, whose
\* bar_index is above that of every pivot held before, so that the two lists
\* merged in insertion order rise strictly too.
C19_PivotIndexesRise ==
    [][/\ PivotsOrdered(engine')
       /\ adds' = adds + 1 =>
             LET lows == Gained(engine.pivot_detector.pivot_lows,
                                engine'.pivot_detector.pivot_lows)
                 highs == Gained(engine.pivot_detector.pivot_highs,
                                 engine'.pivot_detector.pivot_highs)
             IN  /\ Len(lows) + Len(highs) <= 1
                 /\ \A new \in BarIndexes(lows) \cup BarIndexes(highs) :
                       \A old \in BarIndexes(engine.pivot_detector.pivot_lows)
                                    \cup BarIndexes(engine.pivot_detector.pivot_highs) :
                           old < new]_vars

\* an engine that was reset or reloaded holds pivots of both types again,
\* the last of them added by add_bar
C19_Witness ==
    /\ reloads = 1
    /\ adds = MaxAdds
    /\ Len(engine.pivot_detector.pivot_lows) >= 1
    /\ Len(engine.pivot_detector.pivot_highs) >= 1
    /\ Len(engine.bars) - 1
           \in BarIndexes(engine.pivot_detector.pivot_lows)
                  \cup BarIndexes(engine.pivot_detector.pivot_highs)

-----------------------------------------------------------------------------
(* Malformed bars, on SpecApp                                              *)

\* low <= min(open, close) <= max(open, close) <= high
WellFormed(bar) ==
    /\ bar.low <= MinInt(bar.open, bar.close)
    /\ MaxInt(bar.open, bar.close) <= bar.high

\* C20: a bar that violates low <= min(open, close) <= max(open, close) <=
\* high is dropped before the pipeline: no row of the bars table, no bar of
\* an engine history and no bar that a bar_closed, signal_check or signal
\* event was broadcast for violates it.
C20_MalformedBarIsDropped ==
    /\ \A s \in Symbols : \A k \in 1..Len(db_bars[s]) : WellFormed(db_bars[s][k])
    /\ \A s \in Symbols :
          signal_engines[s] # None
              => \A k \in 1..Len(signal_engines[s].bars) :
                     WellFormed(signal_engines[s].bars[k])
    /\ \A k \in 1..Len(broadcasts) : WellFormed(tasks[broadcasts[k].task].bar)

-----------------------------------------------------------------------------
(* The order of the signals, on SpecApp                                    *)

\* the signal events broadcast so far for symbol s, in emission order
SignalsOf(s) ==
    LET IsSignalOf(m) == m.event = "signal" /\ m.symbol = s
    IN  SelectSeq(broadcasts, IsSignalOf)

\* C21: for every symbol the timestamps of the signals broadcast are
\* non-decreasing in emission order.
C21_SignalTimestampsNonDecreasing ==
    \A s \in Symbols :
        \A k \in 1..(Len(SignalsOf(s)) - 1) :
            SignalsOf(s)[k].timestamp <= SignalsOf(s)[k + 1].timestamp

-----------------------------------------------------------------------------
(* SpecPure: the pure functions of patterns.py, trend_analyzer.py,         *)
(* indicators.py and of the backtest report.  The initial state holds one  *)
(* call with its arguments drawn from a bounded grid; the action of the    *)
(* function called evaluates it and stores what it returns                 *)

Called(fn) == call.fn = fn /\ ~call.returned

Returned(fn) == call.fn = fn /\ call.returned

MaxPrice == 5        \* the prices of the pattern grid are 0..MaxPrice

\* every bar of the grid, well-formed or not (Bar validates nothing)
PatternBars ==
    { Bar("TEST", 1, o, h, l, c) :
        o \in 0..MaxPrice, h \in 0..MaxPrice, l \in 0..MaxPrice, c \in 0..MaxPrice }

HammerCalls ==
    { [fn |-> "is_hammer", bar |-> bar, returned |-> FALSE] : bar \in PatternBars }

StarCalls ==
    { [fn |-> "is_shooting_star", bar |-> bar, returned |-> FALSE] :
        bar \in PatternBars }

CallIsHammer ==
    /\ Called("is_hammer")
    /\ call' = [fn |-> call.fn, bar |-> call.bar, returned |-> TRUE,
                value |-> is_hammer(call.bar)]
    /\ UNCHANGED <<varsEngine, varsApp, varsStore, varsTrade>>

CallIsShootingStar ==
    /\ Called("is_shooting_star")
    /\ call' = [fn |-> call.fn, bar |-> call.bar, returned |-> TRUE,
                value |-> is_shooting_star(call.bar)]
    /\ UNCHANGED <<varsEngine, varsApp, varsStore, varsTrade>>

\* the bars of the grid told by their bodies: the high and the low are the
\* ends of the body, which is all the engulfing patterns read
BodyBars(timestamp) ==
    { Bar("TEST", timestamp, o, MaxInt(o, c), MinInt(o, c), c) :
        o \in 0..MaxPrice, c \in 0..MaxPrice }

BullishEngulfingCalls ==
    { [fn |-> "is_bullish_engulfing", current |-> current, previous |-> previous,
       returned |-> FALSE] : current \in BodyBars(2), previous \in BodyBars(1) }

BearishEngulfingCalls ==
    { [fn |-> "is_bearish_engulfing", current |-> current, previous |-> previous,
       returned |-> FALSE] : current \in BodyBars(2), previous \in BodyBars(1) }

CallIsBullishEngulfing ==
    /\ Called("is_bullish_engulfing")
    /\ call' = [fn |-> call.fn, current |-> call.current,
                previous |-> call.previous, returned |-> TRUE,
                value |-> is_bullish_engulfing(call.current, call.previous)]
    /\ UNCHANGED <<varsEngine, varsApp, varsStore, varsTrade>>

CallIsBearishEngulfing ==
    /\ Called("is_bearish_engulfing")
    /\ call' = [fn |-> call.fn, current |-> call.current,
                previous |-> call.previous, returned |-> TRUE,
                value |-> is_bearish_engulfing(call.current, call.previous)]
    /\ UNCHANGED <<varsEngine, varsApp, varsStore, varsTrade>>

MaxPivots == 5       \* a pivot list of the grid holds at most MaxPivots pivots

PivotPrices == 1..4

\* every list of at most MaxPivots pivot prices
PriceLists ==
    UNION { { ToSeq(f) : f \in [1..n -> PivotPrices] } : n \in 0..MaxPivots }

\* chosen lists for the other side: none, three, four and five ascending,
\* an equal and a descending pair among the last four
FewPriceLists ==
    { <<>>, <<1, 2, 3>>, <<1, 2, 3, 4>>, <<4, 1, 2, 3, 4>>,
      <<1, 2, 2, 4>>, <<1, 2, 3, 4, 3>> }

PivotsOf(type, prices) ==
    ToSeq([k \in 1..Len(prices) |->
              Pivot(type, prices[k], 2 * k, 2 * k - 1,
                    IF type = "LOW" THEN "HAMMER" ELSE "SHOOTING_STAR")])

AnalyzeCalls ==
    { [fn |-> "analyze", pivot_lows |-> PivotsOf("LOW", lows),
       pivot_highs |-> PivotsOf("HIGH", highs), returned |-> FALSE] :
        <<lows, highs>> \in (PriceLists \X FewPriceLists)
                                \cup (FewPriceLists \X PriceLists) }

CallAnalyze ==
    /\ Called("analyze")
    /\ call' = [fn |-> call.fn, pivot_lows |-> call.pivot_lows,
                pivot_highs |-> call.pivot_highs, returned |-> TRUE,
                value |-> analyze(call.pivot_lows, call.pivot_highs)]
    /\ UNCHANGED <<varsEngine, varsApp, varsStore, varsTrade>>

MaxCloses == 6       \* a list of closes of the grid holds at most MaxCloses

ClosePrices == {1, 2, 4}

\* every list of at most MaxCloses closes
CloseLists ==
    UNION { { ToSeq(f) : f \in [1..n -> ClosePrices] } : n \in 0..MaxCloses }

\* fast, slow and signal periods, fast below slow
MacdPeriods == { <<1, 3, 3>>, <<1, 3, 1>>, <<1, 2, 1>>, <<2, 3, 2>> }

MacdCalls ==
    { [fn |-> "calculate_macd", closes |-> closes, fast_period |-> p[1],
       slow_period |-> p[2], signal_period |-> p[3], returned |-> FALSE] :
        closes \in CloseLists, p \in MacdPeriods }

CallCalculateMacd ==
    /\ Called("calculate_macd")
    /\ call' = [fn |-> call.fn, closes |-> call.closes,
                fast_period |-> call.fast_period,
                slow_period |-> call.slow_period,
                signal_period |-> call.signal_period, returned |-> TRUE,
                value |-> calculate_macd(call.closes, call.fast_period,
                                         call.slow_period, call.signal_period)]
    /\ UNCHANGED <<varsEngine, varsApp, varsStore, varsTrade>>

\* the MACD snapshots of the grid: none, or lines at -1, 0 and 1
Snapshots ==
    {None} \cup { MACDResult(Rat(m), Rat(s), Rat(m - s)) :
                    m \in -1..1, s \in -1..1 }

CrossoverCalls ==
    { [fn |-> "check_macd_crossover", current |-> current,
       previous |-> previous, returned |-> FALSE] :
        current \in Snapshots, previous \in Snapshots }

CallCheckMacdCrossover ==
    /\ Called("check_macd_crossover")
    /\ call' = [fn |-> call.fn, current |-> call.current,
                previous |-> call.previous, returned |-> TRUE,
                value |-> check_macd_crossover(call.current, call.previous)]
    /\ UNCHANGED <<varsEngine, varsApp, varsStore, varsTrade>>

RsiPeriods == 1..3

RsiCalls ==
    { [fn |-> "calculate_rsi", closes |-> closes, period |-> period,
       returned |-> FALSE] : closes \in CloseLists, period \in RsiPeriods }

CallCalculateRsi ==
    /\ Called("calculate_rsi")
    /\ call' = [fn |-> call.fn, closes |-> call.closes, period |-> call.period,
                returned |-> TRUE,
                value |-> calculate_rsi(call.closes, call.period)]
    /\ UNCHANGED <<varsEngine, varsApp, varsStore, varsTrade>>

InitPure ==
    /\ \/ call \in HammerCalls
       \/ call \in StarCalls
       \/ call \in BullishEngulfingCalls
       \/ call \in BearishEngulfingCalls
       \/ call \in AnalyzeCalls
       \/ call \in RsiCalls
       \/ call \in MacdCalls
       \/ call \in CrossoverCalls
    /\ TradeIdle
    /\ StoreIdle
    /\ engine = None
    /\ result = None
    /\ adds = 0
    /\ reloads = 0
    /\ Started(Run(0, 0, 0, 0, 0, 0, 0))

NextPure ==
    \/ CallIsHammer
    \/ CallIsShootingStar
    \/ CallIsBullishEngulfing
    \/ CallIsBearishEngulfing
    \/ CallAnalyze
    \/ CallCalculateRsi
    \/ CallCalculateMacd
    \/ CallCheckMacdCrossover

SpecPure == InitPure /\ [][NextPure]_vars

-----------------------------------------------------------------------------
(* The candlestick patterns, on SpecPure                                   *)

\* the hammer rule on body b, lower shadow ls, upper shadow us and range r,
\* with the ratios cleared of their denominators
HammerRule(b, ls, us, r) ==
    /\ r > 0
    /\ 100 * b <= 35 * r
    /\ 10 * ls >= 4 * r
    /\ b > 0 => (10 * ls >= 18 * b /\ 10 * us <= 12 * b)
    /\ b = 0 => 10 * ls >= 6 * r

\* the bar reflected in price: p becomes -p, high and low change places
Reflected(bar) ==
    Bar(bar.symbol, bar.timestamp, -bar.open, -bar.low, -bar.high, -bar.close)

\* C22: is_hammer(bar) is true exactly when r > 0, b/r <= 0.35, ls >= 0.4 r,
\* (b > 0 implies ls/b >= 1.8 and us <= 1.2 b) and (b = 0 implies
\* ls >= 0.6 r); is_shooting_star(bar) is is_hammer of the reflected bar.
C22_HammerRuleAndMirror ==
    /\ Returned("is_hammer") =>
          call.value =
              HammerRule(AbsInt(call.bar.close - call.bar.open),
                         MinInt(call.bar.open, call.bar.close) - call.bar.low,
                         call.bar.high - MaxInt(call.bar.open, call.bar.close),
                         call.bar.high - call.bar.low)
    /\ Returned("is_shooting_star") =>
          call.value = is_hammer(Reflected(call.bar))

\* the current body strictly contains the previous body
Engulfs(current, previous) ==
    /\ \A p \in {previous.open, previous.close} :
          \E q \in {current.open, current.close} : q < p
    /\ \A p \in {previous.open, previous.close} :
          \E q \in {current.open, current.close} : q > p

\* C23: is_bullish_engulfing(current, previous) is true exactly when the
\* previous bar closes below its open, the current bar closes above its open
\* and the current body strictly contains the previous body;
\* is_bearish_engulfing is the same with the two colours swapped; a previous
\* bar that is bullish or a doji never makes a bullish engulfing.
C23_EngulfingRule ==
    /\ Returned("is_bullish_engulfing") =>
          /\ call.value = (/\ call.previous.close < call.previous.open
                           /\ call.current.close > call.current.open
                           /\ Engulfs(call.current, call.previous))
          /\ call.previous.close >= call.previous.open => call.value = FALSE
    /\ Returned("is_bearish_engulfing") =>
          call.value = (/\ call.previous.close > call.previous.open
                        /\ call.current.close < call.current.open
                        /\ Engulfs(call.current, call.previous))

\* a bullish engulfing pair has been recognised
C23_Witness ==
    /\ Returned("is_bullish_engulfing")
    /\ call.value = TRUE
    /\ call.previous.close < call.previous.open

-----------------------------------------------------------------------------
(* The trend analysis, on SpecPure                                         *)

\* the list holds four pivots or more and the last four rise strictly
LastFourAscend(pivots) ==
    /\ Len(pivots) >= 4
    /\ \A k \in (Len(pivots) - 3)..(Len(pivots) - 1) :
          pivots[k].price < pivots[k + 1].price

\* C24: analyze reports is_uptrend exactly when the last four pivot lows rise
\* strictly in price and the last four pivot highs rise strictly in price.
C24_UptrendIffLastFourAscend ==
    Returned("analyze") =>
        call.value.is_uptrend =
            (LastFourAscend(call.pivot_lows) /\ LastFourAscend(call.pivot_highs))

\* an uptrend reported on five pivot lows, the first of which breaks the rise
C24_Witness ==
    /\ Returned("analyze")
    /\ call.value.is_uptrend
    /\ Len(call.pivot_lows) = 5
    /\ call.pivot_lows[1].price >= call.pivot_lows[2].price

-----------------------------------------------------------------------------
(* The confirmation failure on a short history, on SpecEngine              *)

\* the last add_bar evaluated a history of fewer than rsi_period + 1 closes
ShortOfRsi ==
    /\ result # None
    /\ Len(Closes(engine.bars)) < engine.rsi_period + 1

\* C25: whenever the engine evaluates a bar with fewer than RSI_PERIOD + 1
\* closes in its history, RSI is absent and the failed conditions returned
\* hold a Confirmation failure that mentions "RSI=N/A".
C25_ShortHistoryFailsConfirmation ==
    ShortOfRsi =>
        /\ calculate_rsi(Closes(engine.bars), engine.rsi_period) = None
        /\ Contains(result.failed_conditions,
                    "No confirmation (MACD no cross, RSI=N/A)")

-----------------------------------------------------------------------------
(* MACD and its crossover, on SpecPure                                     *)

-----------------------------------------------------------------------------
(* The profit factor of the report, on SpecBacktest                        *)

\* the sum of the pnl of the first k trades that win (or that do not)
RECURSIVE PnlSum(_, _, _)
PnlSum(trades, k, winning) ==
    IF k = 0 THEN Rat(0)
    ELSE IF RLt(Rat(0), trades[k].pnl) = winning
         THEN RAdd(PnlSum(trades, k - 1, winning), trades[k].pnl)
         ELSE PnlSum(trades, k - 1, winning)

\* the profit factor the report should show for these trades
ProfitFactor(trades) ==
    LET won == PnlSum(trades, Len(trades), TRUE)
        lost == RAbs(PnlSum(trades, Len(trades), FALSE))
    IN  IF lost = Rat(0) THEN Infinity ELSE RDiv(won, lost)

\* C27: in every report, profit factor is the sum of the winning pnl over the
\* absolute sum of the losing pnl, and is +infinity when that denominator is
\* 0, a run without trades and a run whose non-winning trades all have pnl 0
\* included; the report is then formatted as "inf".
C27_ProfitFactor ==
    \A k \in 1..Len(reports) :
        /\ reports[k].result.profit_factor = ProfitFactor(reports[k].result.trades)
        /\ to_dict(reports[k].result).profit_factor.inf
              = (ProfitFactor(reports[k].result.trades) = Infinity)

-----------------------------------------------------------------------------
(* RSI, on SpecPure                                                        *)

NoRise(closes) == \A k \in 1..(Len(closes) - 1) : closes[k + 1] <= closes[k]

NoFall(closes) == \A k \in 1..(Len(closes) - 1) : closes[k + 1] >= closes[k]

SomeFall(closes) == \E k \in 1..(Len(closes) - 1) : closes[k + 1] < closes[k]

StrictRise(closes) == \A k \in 1..(Len(closes) - 1) : closes[k + 1] > closes[k]

StrictFall(closes) == \A k \in 1..(Len(closes) - 1) : closes[k + 1] < closes[k]

\* the smoothed average loss of period + 1 closes or more
AvgLoss(closes, period) ==
    LET fallen == ToSeq([k \in 1..(Len(closes) - 1) |->
                            IF closes[k + 1] < closes[k]
                            THEN Rat(closes[k] - closes[k + 1]) ELSE Rat(0)])
    IN  wilder(_mean(FirstN(fallen, period)), fallen, period + 1, period)

\* what every RSI call satisfies: absent exactly below period + 1 closes,
\* within [0, 100], 100 when the smoothed average loss is 0, above 70 on a
\* strictly rising series and below 30 on a strictly falling one
RsiBasics ==
    /\ (call.value = None) = (Len(call.closes) < call.period + 1)
    /\ call.value # None =>
          /\ RLe(Rat(0), call.value)
          /\ RLe(call.value, Rat(100))
          /\ AvgLoss(call.closes, call.period) = Rat(0) => call.value = Rat(100)
          /\ NoFall(call.closes) => call.value = Rat(100)
          /\ StrictRise(call.closes) => RLt(Rat(70), call.value)
          /\ StrictFall(call.closes) => RLt(call.value, Rat(30))

\* C28 as stated: calculate_rsi returns no value exactly below period + 1
\* closes; otherwise the value is within [0, 100], is 100 whenever the
\* smoothed average loss is 0, and is 0 when no close is higher than its
\* predecessor and at least one is lower; a strictly rising series gives more
\* than 70 and a strictly falling one less than 30.
C28_RsiAsStated ==
    Returned("calculate_rsi") =>
        /\ RsiBasics
        /\ (call.value # None /\ NoRise(call.closes) /\ SomeFall(call.closes))
              => call.value = Rat(0)

\* C28 amended: as stated, except that the value is 0 when no close is higher
\* than its predecessor and the smoothed average loss is above 0, which for
\* a period of 2 or more is whenever at least one close is lower.
C28_RsiRule ==
    Returned("calculate_rsi") =>
        /\ RsiBasics
        /\ (/\ call.value # None
            /\ NoRise(call.closes)
            /\ AvgLoss(call.closes, call.period) # Rat(0)) => call.value = Rat(0)
        /\ (/\ call.value # None
            /\ call.period >= 2
            /\ NoRise(call.closes)
            /\ SomeFall(call.closes)) => call.value = Rat(0)

\* an RSI of 0 on a series that falls and then stays flat, period 2
C28_Witness ==
    /\ Returned("calculate_rsi")
    /\ call.period = 2
    /\ NoRise(call.closes)
    /\ SomeFall(call.closes)
    /\ ~StrictFall(call.closes)
    /\ call.value = Rat(0)

-----------------------------------------------------------------------------
(* The engine histories under concurrent handlers, on SpecApp              *)

\* the bars the handlers have passed to add_bar
Fed == { fed[k] : k \in DOMAIN fed }

\* the bars of Fed that the engine of symbol s holds in state A
Kept(engines, s) ==
    { b \in Fed : Contains(engines[s].bars, b) }

\* C29: a bar a handler has appended to the history of its symbol's engine
\* stays there: no step of a bar handler, of the loading of a new engine's
\* history or of a watchlist addition takes a fed bar out of the history of
\* an engine that is kept.
C29_FedBarsStay ==
    [][\A s \in Symbols :
          (signal_engines[s] # None /\ signal_engines'[s] # None)
              => Kept(signal_engines, s) \subseteq Kept(signal_engines', s)]_vars

-----------------------------------------------------------------------------
(* The watchlist after PUT /settings, on SpecApp                           *)

\* the symbols that have a signal engine
EngineSymbols == { s \in Symbols : signal_engines[s] # None }

\* a PUT /settings with a watchlist has been handled to its end, and every
\* bar handler started has ended
UpdatesCompleted ==
    /\ db_settings.watchlist # None
    /\ wl.pc = "idle"
    /\ \A t \in DOMAIN tasks : tasks[t].pc = "done"

\* C30: once the watchlist updates have completed, the symbols that have a
\* signal engine, _current_symbols, the symbols the transport is subscribed
\* to, the watchlist GET /symbols returns and the persisted watchlist setting
\* are all the set of symbols of the last update.
C30_WatchlistConsistent ==
    UpdatesCompleted =>
        /\ EngineSymbols = set(wl.new_symbols)
        /\ set(current_symbols) = set(wl.new_symbols)
        /\ subscribed = set(wl.new_symbols)
        /\ set(current_settings.watchlist) = set(wl.new_symbols)
        /\ set(db_settings.watchlist.value) = set(wl.new_symbols)

-----------------------------------------------------------------------------
(* The previous MACD snapshot of a check, on SpecEngine                    *)

\* the MACD over the whole history of engine e
MacdOfHistory(e) ==
    calculate_macd(Closes(e.bars), e.macd_fast, e.macd_slow, e.macd_signal)

\* C31: at every add_bar, for the bar at history index i, the previous
\* snapshot the check uses is the MACD over history[0..i-1], the history
\* before the bar is appended; also on the first add_bar after load_bars
\* and after reset.
C31_PreviousMacdIsOfPreviousBar ==
    [][adds' = adds + 1 => engine.previous_macd = MacdOfHistory(engine)]_vars

-----------------------------------------------------------------------------
(* The pivot of each bar of the history, on SpecEngine                     *)

\* the pivots of the list that point at the 0-based history index i
PivotsAt(pivots, i) ==
    { pivots[k] : k \in { j \in 1..Len(pivots) : pivots[j].bar_index = i } }

\* the pivots engine e should hold for its bar at 0-based index i, given
\* the classification of the tail of history[0..i]
PivotRule(e, i) ==
    LET upto == SubSeq(e.bars, 1, i + 1)
        bar == e.bars[i + 1]
        bullish == detect_bullish_reversal(upto)
        bearish == detect_bearish_reversal(upto)
        lows == PivotsAt(e.pivot_detector.pivot_lows, i)
        highs == PivotsAt(e.pivot_detector.pivot_highs, i)
    IN  IF bullish # NoPattern
        THEN /\ lows = {Pivot("LOW", bar.low, bar.timestamp, i, bullish)}
             /\ highs = {}
        ELSE IF bearish # NoPattern
        THEN /\ highs = {Pivot("HIGH", bar.high, bar.timestamp, i, bearish)}
             /\ lows = {}
        ELSE lows = {} /\ highs = {}

\* C32: for every bar of the history, at index i, the very first bar
\* included: when the tail of history[0..i] is a bullish reversal, a pivot
\* low with price bar.low, bar_index i and that pattern is held; else when it
\* is a bearish reversal, a pivot high with price bar.high and bar_index i;
\* otherwise no pivot points at i.
C32_PivotPerBar ==
    \A i \in 0..(Len(engine.bars) - 1) : PivotRule(engine, i)

-----------------------------------------------------------------------------
(* The counts of analyze, on SpecPure                                      *)

\* the last k pivots of the list rise strictly in price
SuffixRises(pivots, k) ==
    \A j \in (Len(pivots) - k + 1)..(Len(pivots) - 1) :
        pivots[j].price < pivots[j + 1].price

\* the number of pivots of the longest strictly rising suffix
LongestRisingSuffix(pivots) ==
    CHOOSE k \in 0..Len(pivots) :
        /\ SuffixRises(pivots, k)
        /\ \A m \in (k + 1)..Len(pivots) : ~SuffixRises(pivots, m)

\* C33: the higher_lows_count (resp. higher_highs_count) that analyze returns
\* is the number of pivots of the longest suffix of the pivot lows (resp.
\* pivot highs) that rises strictly in price.
C33_CountsAreSuffixLengths ==
    Returned("analyze") =>
        /\ call.value.higher_lows_count = LongestRisingSuffix(call.pivot_lows)
        /\ call.value.higher_highs_count = LongestRisingSuffix(call.pivot_highs)

-----------------------------------------------------------------------------
(* The quantity of the signals of the live pipeline, on SpecApp            *)

\* bar handler t has its engine's check of its bar after the step, and had
\* not before it
ChecksInStep(t) ==
    /\ t \in DOMAIN tasks'
    /\ tasks'[t].added
    /\ ~(t \in DOMAIN tasks /\ tasks[t].added)

\* the check handler t holds fired a signal
SignalOf(T) == T.result # None /\ T.result.should_signal /\ T.result.signal # None

\* C34: while no PUT /settings is in progress, every signal a bar handler's
\* engine emits has the quantity that is current_settings["default_quantity"],
\* the value the last PUT /settings with a default_quantity set (or the value
\* startup loaded), whether the engine existed before that PUT or not.
C34_SignalQuantityIsSetting ==
    [][\A t \in TaskIds :
          (wl.pc = "idle" /\ ChecksInStep(t) /\ SignalOf(tasks'[t]))
              => tasks'[t].result.signal.quantity
                     = current_settings.default_quantity]_vars

-----------------------------------------------------------------------------
(* The accounts of the backtester, on SpecBacktest                         *)

\* the highest capital among initial and the first k entries of the curve
RECURSIVE PeakUpTo(_, _, _)
PeakUpTo(initial, curve, k) ==
    IF k = 0 THEN initial
    ELSE RMax(PeakUpTo(initial, curve, k - 1), curve[k][2])

\* (peak - capital) / peak after the bar of entry k of the curve
DrawdownAt(initial, curve, k) ==
    LET peak == PeakUpTo(initial, curve, k)
    IN  RDiv(RSub(peak, curve[k][2]), peak)

\* the largest drawdown over the first k entries of the curve
RECURSIVE MaxDrawdownUpTo(_, _, _)
MaxDrawdownUpTo(initial, curve, k) ==
    IF k = 0 THEN Rat(0)
    ELSE RMax(MaxDrawdownUpTo(initial, curve, k - 1), DrawdownAt(initial, curve, k))

\* the accounts of engine b agree with its trades and its equity curve
Balanced(b) ==
    /\ b.capital = RAdd(b.initial_capital, RSum(pnl_of(b.trades)))
    /\ RLe(b.capital, b.peak_capital)
    /\ b.max_drawdown
           = MaxDrawdownUpTo(b.initial_capital, b.equity_curve, Len(b.equity_curve))

\* C35: after every pass of the loop of run, capital is initial capital plus
\* the pnl of the logged trades, peak capital is at least capital, the max
\* drawdown has not decreased and is the maximum over the bars processed of
\* (peak - capital) / peak, and the equity curve has gained exactly the one
\* entry (timestamp, capital) of the bar processed, whose timestamp is not
\* before that of the bar the run processed before it.
C35_AccountsPerBar ==
    [][\A i \in 1..MaxEngines :
          LoopPass(i) =>
              /\ Balanced(backtest'[i])
              /\ RLe(backtest[i].max_drawdown, backtest'[i].max_drawdown)
              /\ backtest'[i].equity_curve
                     = Append(backtest[i].equity_curve,
                              <<PassBar(i).timestamp, backtest'[i].capital>>)
              /\ backtest[i].running.k > 1 =>
                     backtest[i].running.all_bars[backtest[i].running.k - 1].timestamp
                         <= PassBar(i).timestamp]_vars

\* a run has logged a losing trade and then a winning one: the drawdown is
\* positive and the peak has moved above the initial capital
C35_Witness ==
    \E i \in 1..Len(backtest) :
        /\ RLt(Rat(0), backtest[i].max_drawdown)
        /\ RLt(backtest[i].initial_capital, backtest[i].peak_capital)
        /\ Len(backtest[i].trades) >= 2

-----------------------------------------------------------------------------
(* The support pivot of a check, on SpecEngine                             *)

\* the check r went past the early returns and evaluated the four conditions
Evaluated(r) ==
    /\ r # None
    /\ ~Contains(r.failed_conditions, "Insufficient data")
    /\ ~Contains(r.failed_conditions, "ATR not available (need more data)")

\* the pivot low the support zone of a check of engine e is built from lies
\* before the last bar of the history
SupportPivotIsEarlier(e) ==
    LET last_pivot_low == get_last_pivot_low(e.pivot_detector)
    IN  last_pivot_low # None => last_pivot_low.bar_index < Len(e.bars) - 1

\* C36: when add_bar evaluates the BUY rule for the bar at history index i,
\* the support zone of condition 2 is built from a pivot low whose bar_index
\* is less than i: the bar under evaluation is never its own support pivot.
C36_SupportPivotBeforeBar ==
    [][(adds' = adds + 1 /\ Evaluated(result'))
          => SupportPivotIsEarlier(engine')]_vars

-----------------------------------------------------------------------------
(* The conditions of a signal check, on SpecEngine                         *)

\* the entries a check may report for each of the four BUY conditions: those
\* of reasons first, those of failed_conditions second
ConditionEntries ==
    { <<{"Uptrend"}, {"No uptrend"}>>,
      <<{"Price in support zone"},
        {"No support zone available", "Price not in support zone"}>>,
      <<{"Bullish reversal"}, {"No bullish reversal pattern"}>>,
      <<{"Confirmation: MACD bullish crossover", "Confirmation: RSI > 50"},
        {"No confirmation (MACD no cross, RSI=N/A)",
         "No confirmation (MACD no cross, RSI=value)"}>> }

\* the number of entries of list that are in the set entries
Count(list, entries) == Cardinality({ k \in 1..Len(list) : list[k] \in entries })

\* check r reports each condition once, as passed or as failed
Partitions(r) ==
    /\ \A c \in ConditionEntries :
          Count(r.reasons, c[1]) + Count(r.failed_conditions, c[2]) = 1
    /\ Len(r.reasons) + Len(r.failed_conditions) = Cardinality(ConditionEntries)

\* C37: every check add_bar returns reports each of the four conditions
\* (uptrend, support zone, reversal pattern, confirmation) exactly once, in
\* reasons or in failed_conditions, so that conditions_passed + |failed| = 4,
\* warm-up bars included; and a signal fires exactly when 4 have passed.
C37_CheckPartitionsConditions ==
    (adds > 0 /\ result # None) =>
        /\ Partitions(result)
        /\ result.should_signal <=> Len(result.reasons) = Cardinality(ConditionEntries)

-----------------------------------------------------------------------------
(* The stop-loss of a fired signal, on SpecEngine                          *)

\* the ATR of the history of engine e
AtrOfHistory(e) == calculate_atr(e.bars, e.atr_period)

\* C38: whenever add_bar fires a signal the engine holds a second-to-last
\* pivot low, and the stop-loss is that pivot's price less
\* sl_buffer_atr_mult * ATR: the fallback from the current bar's low is not
\* taken.
C38_StopLossFromPivot ==
    Fired =>
        /\ Len(engine.pivot_detector.pivot_lows) >= 2
        /\ result.signal.stop_loss
               = RSub(Rat(engine.pivot_detector.pivot_lows[
                              Len(engine.pivot_detector.pivot_lows) - 1].price),
                      RMul(engine.sl_buffer_atr_mult, AtrOfHistory(engine)))

\* a signal fired on a history with exactly four pivot lows, the fewest an
\* uptrend needs, whose stop-loss differs from the fallback value
C38_Witness ==
    /\ Fired
    /\ adds > 0
    /\ Len(engine.pivot_detector.pivot_lows) = REQUIRED_PAIRS + 1
    /\ result.signal.stop_loss
           # RSub(Rat(Last(engine.bars).low),
                  RMul(engine.sl_buffer_atr_mult, AtrOfHistory(engine)))

-----------------------------------------------------------------------------
(* The history of an engine and the store, on SpecApp                      *)

\* every bar handler started has ended and no PUT /settings is in progress
Quiet ==
    /\ wl.pc = "idle"
    /\ \A t \in DOMAIN tasks : tasks[t].pc = "done"

\* bars holds at most one bar per timestamp, oldest first
OnePerTimestamp(bars) ==
    \A j, k \in 1..Len(bars) : j < k => bars[j].timestamp < bars[k].timestamp

\* C39: once the bar handlers and watchlist updates started have ended, the
\* history of every signal engine holds at most one bar per timestamp, in
\* timestamp order, and is the bars the store holds for its symbol.
C39_HistoryAgreesWithStore ==
    Quiet =>
        \A s \in Symbols :
            signal_engines[s] # None =>
                /\ OnePerTimestamp(signal_engines[s].bars)
                /\ signal_engines[s].bars = db_bars[s]

-----------------------------------------------------------------------------
(* A broadcast and the subscribers that stay, on SpecApp                   *)

\* c was registered when the run began, is registered still, and its peer
\* has been reading all along
StaysRegistered(c) ==
    /\ budget.streaming >= IndexOf(Connections, c)
    /\ Contains(active_connections, c)
    /\ client[c] = "ok"

\* the number of times message m went out to c
TimesSent(c, m) == Cardinality({ k \in 1..Len(delivered[c]) : delivered[c][k] = m })

\* C40: a subscriber registered before a broadcast starts and registered
\* until it ends is sent its event exactly once, whatever other subscribers
\* connect, disconnect or are removed meanwhile; and active_connections never
\* holds the same subscriber twice.
C40_StayingSubscriberSentOnce ==
    /\ \A c \in Conns :
          StaysRegistered(c) =>
              \A k \in DOMAIN broadcasts :
                  BroadcastOver(broadcasts[k]) => TimesSent(c, broadcasts[k]) = 1
    /\ \A j, k \in 1..Len(active_connections) :
          j < k => active_connections[j] # active_connections[k]

====
